---- MODULE Spec2Model ----
(***************************************************************************)
(* PyHybridDB storage substrate: the LSM engine (WAL, MemTable, SSTable    *)
(* runs), the append-only file engine (framed blocks, LRU cache, B-tree    *)
(* id index, per-container offset lists), the Table / Collection adapters  *)
(* that drive them, and the B-tree index, the WAL file and the consistent  *)
(* hash ring each driven on its own.                                       *)
(***************************************************************************)
EXTENDS Integers, Sequences, FiniteSets, TLC

\* ------------------------------------------------------------------ bounds
MaxId == 2
MaxCapacity == 2
MaxWrites == 3
MaxBlocks == 4
MaxCache == 2
MaxPayload == 3
MaxOrder == 3
MaxExtraKeys == 3
MaxWalEntries == 2
MaxCopies == 2
MaxDim == 2
MaxRows == 3
MaxK == 3
MaxBatch == 2
MaxColRows == 3

\* ------------------------------------------------------- values and records
\* Python None: the MemTable tombstone and the "absent" answer of dict.get.
None == [none |-> TRUE]

\* An Optional[int] that is not None (an int is never compared with None).
Some(v) == [some |-> v]

\* One-character names are kept as their UTF-8 byte ("A" = 65, "B" = 66).
Ids == 1..MaxId
Names == {65, 66}
Ages == {30, 31}
Records == [name : Names, age : Ages, id : Ids]

\* The age 'x': a str where the schema of the table wants an integer.
BadAge == -1

\* The records put straight into the engine: two values per id.
PutRecords == {r \in Records : r.name = 65}

\* The container the adapters work on: the table "u" (bytes of its name).
Users == <<117>>

\* str(n) for n >= 0, as UTF-8 bytes (decimal digits).
RECURSIVE Str(_)
Str(n) == IF n < 10 THEN <<48 + n>> ELSE Str(n \div 10) \o <<48 + (n % 10)>>

\* f"{container_name}:{record_id}"
Key(c, id) == c \o <<58>> \o Str(id)

\* Python's ordering of str / bytes: lexicographic, a proper prefix first.
RECURSIVE SeqLess(_, _)
SeqLess(a, b) ==
    IF b = <<>> THEN FALSE
    ELSE IF a = <<>> THEN TRUE
    ELSE IF Head(a) # Head(b) THEN Head(a) < Head(b)
    ELSE SeqLess(Tail(a), Tail(b))

\* key.startswith(prefix)
StartsWith(k, p) == Len(k) >= Len(p) /\ SubSeq(k, 1, Len(p)) = p

\* ---------------------------------------------------------------- msgpack
\* msgpack.packb of None (0xc0) and of {"name": s, "age": n, "id": i}:
\* fixmap(3), fixstr keys, a one-byte fixstr name, positive fixints.
\* The age 'x' is a fixstr of one byte (0xa1, 120).
Pack(v) ==
    IF v = None THEN <<192>>
    ELSE <<131, 164, 110, 97, 109, 101, 161, v.name, 163, 97, 103, 101>>
         \o (IF v.age = BadAge THEN <<161, 120>> ELSE <<v.age>>)
         \o <<162, 105, 100, v.id>>

\* msgpack.unpackb of such bytes.
Unpack(b) ==
    IF b = <<192>> THEN None
    ELSE IF b[13] = 161 THEN [name |-> b[8], age |-> BadAge, id |-> b[18]]
    ELSE [name |-> b[8], age |-> b[13], id |-> b[17]]

\* ---------------------------------------------------------------- state
VARIABLES
    lsmStatus,      \* "open" | "closed" | "crashed" (process gone)
    lsmRecovered,   \* the running engine was brought up by open()
    capacity,       \* memtable_capacity
    memData,        \* MemTable.data: key -> record or None
    memSize,        \* MemTable.size
    wal,            \* wal.log on disk: sequence of <<key, packed value>>
    sstFiles,       \* NNNNNN.sst on disk, file N at index N+1: <<key, packed value>>*
    sstables,       \* LSMStorageEngine.sstables, newest first
    lsmRegistered,  \* the container is in metadata['tables']
    lsmOffsets,     \* metadata['tables'][c]['offsets']
    lastWrite,      \* history: per id, the last write whose WAL append returned
    writes,         \* history: how many WAL appends have returned
    \* the append-only file engine
    fmBytes,        \* the database file from the first appended block on
    cacheSize,      \* CacheManager.capacity
    cache,          \* CacheManager.cache, least recently used first
    idIndex,        \* indexes[c]['id']
    feOffsets,      \* metadata['tables'][c]['offsets']
    tlog,           \* _transaction_log
    inserted,       \* history: offset -> the record insert_record was given
    \* the Table adapter
    engine,         \* "file" | "lsm": the engine the table was created on
    autoInc,        \* Table._auto_increment_id
    pc,             \* "idle" | "update": inside Table.update's loop
    loopI,          \* the loop's index i into the live offset list
    loopCount,      \* the loop's count
    loopArgs,       \* the where and updates of the running call
    loopHist,       \* history of the running call
    lastRet,        \* history: the adapter call that returned last
    rows,           \* history: per id, the row the table should hold
    \* one block through the block codec
    blkPc,          \* "new" | "framed" | "parsed"
    blkType,        \* block_type
    blkPayload,     \* data
    blkBlock,       \* the framed block, possibly perturbed
    blkHit,         \* 0, or the payload position that was perturbed
    blkResult,      \* what _parse_block gave
    \* a BTreeIndex driven directly
    btIndex,        \* the BTreeIndex: order, root, _size
    btKeys,         \* history: the keys inserted
    btScen,         \* history: how far the inserts follow Scenario, -1 when not
    \* one wal.log written, cut short and recovered
    walPc,          \* "writing" | "cut" | "recovered"
    walFile,        \* the bytes of wal.log
    walLog,         \* history: the (key, value) pairs appended, in order
    walCutAt,       \* history: the length the file was cut to, -1 when not cut
    walOut,         \* what WAL.recover gave
    \* a ConsistentHashRing
    ringHash,       \* _hash on the strings "node:i": fixed, without collisions
    ringMap,        \* ConsistentHashRing.ring: hash -> node
    ringSorted,     \* ConsistentHashRing.sorted_keys
    \* a DistributedCluster over that ring, one call at a time
    cluCall,        \* the call made: its arguments, the document afterwards
    cluSent,        \* the requests the call sent, in order
    cluRet,         \* what the call returned or raised
    \* a VectorIndex
    vecDim,         \* VectorIndex.dimension
    vecIds,         \* VectorIndex.ids
    vecRows,        \* VectorIndex.vectors, row by row
    vecDisk,        \* ids.npy and vectors.npy
    vecOut,         \* what the last add or search gave
    \* a ColumnarTable
    colColumns,     \* ColumnarTable.columns: column -> array
    colRowCount,    \* ColumnarTable.row_count
    colDisk,        \* the <column>.npy files
    colOut,         \* what the last insert_many or aggregate gave
    \* one database file closed, damaged and opened again
    opnPc,          \* "made" | "closed" | "damaged" | "opened"
    opnFile,        \* the file from the META offset on
    opnMeta,        \* FileStorageEngine.metadata of the engine in hand
    opnHit,         \* history: what was done to the file, None when nothing
    opnOut,         \* what open() gave
    \* calls on the LSM engine that it does not support
    lsmCall,        \* the last such call and what it gave
    \* the database file of the append engine across close() and open()
    perPc,          \* "open" | "closed": the engine in hand
    perMeta,        \* the file between the header and the first appended block
    perSaved,       \* history: the offset list and the scan just before close()
    bxRet,          \* the last call on the index: op, key, ret, raised
    bxCalls,        \* history: number of calls on the index
    lruHits,        \* CacheManager.hits
    lruMisses,      \* CacheManager.misses
    lruGets,        \* history: number of get calls since the last clear
    lruTouch,       \* history: the cached keys, least recently touched first
    lruRet          \* the last call on the cache: op, key

lsmVars == <<lsmStatus, lsmRecovered, capacity, memData, memSize, wal, sstFiles,
             sstables, lsmRegistered, lsmOffsets, lastWrite, writes>>

feVars == <<fmBytes, cacheSize, cache, idIndex, feOffsets, tlog, inserted>>

tblVars == <<engine, autoInc, pc, loopI, loopCount, loopArgs, loopHist, lastRet,
             rows>>

blkVars == <<blkPc, blkType, blkPayload, blkBlock, blkHit, blkResult>>

btVars == <<btIndex, btKeys, btScen>>

walVars == <<walPc, walFile, walLog, walCutAt, walOut>>

ringVars == <<ringHash, ringMap, ringSorted>>

cluVars == <<cluCall, cluSent, cluRet>>

vecVars == <<vecDim, vecIds, vecRows, vecDisk, vecOut>>

colVars == <<colColumns, colRowCount, colDisk, colOut>>

opnVars == <<opnPc, opnFile, opnMeta, opnHit, opnOut>>

tierVars == <<cluVars, vecVars, colVars, opnVars, lsmCall>>

perVars == <<perPc, perMeta, perSaved>>

bxVars == <<bxRet, bxCalls>>
lruVars == <<lruHits, lruMisses, lruGets, lruTouch, lruRet>>
extVars == <<perVars, bxVars, lruVars>>

libVars == <<btVars, walVars, ringVars, tierVars, extVars>>

vars == <<lsmVars, feVars, tblVars, blkVars, libVars>>

\* ----------------------------------------------------------------- MemTable
EmptyDict == [k \in {} |-> None]

DictSet(d, k, v) == [x \in (DOMAIN d) \cup {k} |-> IF x = k THEN v ELSE d[x]]

\* dict.get(key): None when the key is absent
DictGet(d, k) == IF k \in DOMAIN d THEN d[k] ELSE None

\* The engine as one value, so that handlers compose.
LsmState ==
    [cap |-> capacity, mem |-> memData, size |-> memSize, wal |-> wal,
     files |-> sstFiles, ssts |-> sstables, reg |-> lsmRegistered,
     offsets |-> lsmOffsets, last |-> lastWrite, n |-> writes]

\* WAL.append: the entry is on disk when it returns.  (last and n are the
\* history of returned appends; last is keyed by the id that ends the key.)
WAL_append(s, key, value) ==
    [s EXCEPT !.wal = Append(@, <<key, Pack(value)>>),
              !.n = @ + 1,
              !.last = [@ EXCEPT ![key[Len(key)] - 48] =
                            IF value = None THEN [kind |-> "del"]
                            ELSE [kind |-> "put", rec |-> value]]]

\* WAL.recover: the entries of the file, decoded, in write order
WAL_recover(w) == [i \in 1..Len(w) |-> <<w[i][1], Unpack(w[i][2])>>]

\* A put that changes memory and leaves the log as it is.
MemTable_put_MemoryOnly(s, key, value) ==
    LET s1 == WAL_append(s, key, value)
    IN  [s1 EXCEPT !.mem = DictSet(@, key, value), !.size = @ + 1, !.wal = s.wal]

\* MemTable.put: wal.append, then data[key] = value, then size += 1
MemTable_put(s, key, value) ==
    LET s1 == WAL_append(s, key, value)
    IN  [s1 EXCEPT !.mem = DictSet(@, key, value), !.size = @ + 1]

MemTable_get(s, key) == DictGet(s.mem, key)

MemTable_delete(s, key) == MemTable_put(s, key, None)

MemTable_is_full(s) == Cardinality(DOMAIN s.mem) >= s.cap

\* sorted(keys)
RECURSIVE SortKeys(_)
SortKeys(S) ==
    IF S = {} THEN <<>>
    ELSE LET m == CHOOSE x \in S : \A y \in S : y = x \/ SeqLess(x, y)
         IN  <<m>> \o SortKeys(S \ {m})

\* sorted(self.data.items())
SortedItems(d) ==
    LET ks == SortKeys(DOMAIN d) IN [i \in 1..Len(ks) |-> <<ks[i], d[ks[i]]>>]

RECURSIVE ReplayInto(_, _)
ReplayInto(d, entries) ==
    IF entries = <<>> THEN d
    ELSE ReplayInto(DictSet(d, Head(entries)[1], Head(entries)[2]), Tail(entries))

\* A recover that keeps the first entry of a key instead of the last.
RECURSIVE ReplayFirstWins(_, _)
ReplayFirstWins(d, entries) ==
    IF entries = <<>> THEN d
    ELSE ReplayFirstWins(
             IF Head(entries)[1] \in DOMAIN d THEN d
             ELSE DictSet(d, Head(entries)[1], Head(entries)[2]),
             Tail(entries))

MemTable_recover_FirstWins(w) == ReplayFirstWins(EmptyDict, WAL_recover(w))

\* MemTable.recover: replay the WAL into data (size is not touched)
MemTable_recover(w) == ReplayInto(EmptyDict, WAL_recover(w))

\* ------------------------------------------------------------------ SSTable
EntrySize(e) == 4 + Len(e[1]) + 4 + Len(e[2])

RECURSIVE EntryOffset(_, _)
EntryOffset(content, i) ==
    IF i = 1 THEN 0 ELSE EntryOffset(content, i - 1) + EntrySize(content[i - 1])

\* SSTable.write: KLen + Key + VLen + Value per item, in the order given
SSTable_write(items) == [i \in 1..Len(items) |-> <<items[i][1], Pack(items[i][2])>>]

\* SSTable.__init__ / _load_index: scan the file, index every key
SSTable_load(path, content) ==
    [path |-> path,
     index |-> [i \in 1..Len(content) |-> <<content[i][1], EntryOffset(content, i)>>],
     bloom |-> {content[i][1] : i \in 1..Len(content)}]

\* SSTable._read_at: decode the value of the entry at a byte offset
SSTable_read_at(content, offset) ==
    LET i == CHOOSE j \in 1..Len(content) : EntryOffset(content, j) = offset
    IN  Unpack(content[i][2])

\* bisect.bisect_left(keys, key, lo, hi), 0-based
RECURSIVE BisectLeft(_, _, _, _)
BisectLeft(keys, key, lo, hi) ==
    IF lo >= hi THEN lo
    ELSE LET mid == (lo + hi) \div 2
         IN  IF SeqLess(keys[mid + 1], key)
             THEN BisectLeft(keys, key, mid + 1, hi)
             ELSE BisectLeft(keys, key, lo, mid)

\* SSTable.get: None when the key is not in the run, else the stored value
SSTable_get(sst, files, key) ==
    IF key \notin sst.bloom THEN None
    ELSE LET keys == [i \in 1..Len(sst.index) |-> sst.index[i][1]]
             i == BisectLeft(keys, key, 0, Len(keys))
         IN  IF i # Len(keys) /\ keys[i + 1] = key
             THEN SSTable_read_at(files[sst.path + 1], sst.index[i + 1][2])
             ELSE None

\* --------------------------------------------------------------- LSM engine
\* A load that lists the runs in plain filename order, oldest first.
LSM_load_sstables_OldestFirst(files) ==
    [i \in 1..Len(files) |-> SSTable_load(i - 1, files[i])]

\* _load_sstables: sorted(glob("*.sst"), reverse=True), newest first
LSM_load_sstables(files) ==
    [i \in 1..Len(files) |-> SSTable_load(Len(files) - i, files[Len(files) - i + 1])]

\* MemTable.flush: data.clear(), wal.clear(), size = 0 (the sorted items it
\* returns are SortedItems of the table before the call)
MemTable_flush(s) == [s EXCEPT !.mem = EmptyDict, !.wal = <<>>, !.size = 0]

\* A flush that puts the new run behind the older ones.
LSM_flush_memtable_AppendsRun(s) ==
    IF s.size = 0 THEN s
    ELSE LET path == Len(s.ssts)
             items == SortedItems(s.mem)
             s1 == [s EXCEPT !.mem = EmptyDict, !.wal = <<>>, !.size = 0]
             content == [i \in 1..Len(items) |-> <<items[i][1], Pack(items[i][2])>>]
         IN  [s1 EXCEPT !.files = Append(@, content),
                        !.ssts = @ \o <<SSTable_load(path, content)>>]

\* _flush_memtable: MemTable.flush() drains the table and truncates the WAL,
\* then the sorted items are written as run number len(sstables) and the new
\* run is put in front of the list.
LSM_flush_memtable(s) ==
    IF s.size = 0 THEN s
    ELSE LET path == Len(s.ssts)
             items == SortedItems(s.mem)
             s1 == MemTable_flush(s)
             content == SSTable_write(items)
         IN  [s1 EXCEPT !.files = Append(@, content),
                        !.ssts = <<SSTable_load(path, content)>> \o @]

\* list.remove(x): drop the first occurrence
RECURSIVE ListRemove(_, _)
ListRemove(l, x) ==
    IF l = <<>> THEN <<>>
    ELSE IF Head(l) = x THEN Tail(l)
    ELSE <<Head(l)>> \o ListRemove(Tail(l), x)

InList(l, x) == \E i \in 1..Len(l) : l[i] = x

\* insert_record (the record carries 'id'); returns rec_id = record.id
LSM_insert_record(s, c, record) ==
    LET s1 == MemTable_put(s, Key(c, record.id), record)
        s2 == IF s1.reg /\ ~InList(s1.offsets, record.id)
              THEN [s1 EXCEPT !.offsets = Append(@, record.id)]
              ELSE s1
    IN  IF MemTable_is_full(s2) THEN LSM_flush_memtable(s2) ELSE s2

\* update_record
LSM_update_record(s, c, id, record) == LSM_insert_record(s, c, record)

\* delete_record
LSM_delete_record(s, c, id) ==
    LET s1 == MemTable_delete(s, Key(c, id))
        s2 == IF s1.reg /\ InList(s1.offsets, id)
              THEN [s1 EXCEPT !.offsets = ListRemove(@, id)]
              ELSE s1
    IN  IF MemTable_is_full(s2) THEN LSM_flush_memtable(s2) ELSE s2

\* The outcome of a read: a record, or KeyError.
Found(rec) == [ok |-> TRUE, rec |-> rec]
KeyError == [ok |-> FALSE]

RECURSIVE ReadRuns(_, _, _, _)
ReadRuns(ssts, files, key, i) ==
    IF i > Len(ssts) THEN KeyError
    ELSE LET val == SSTable_get(ssts[i], files, key)
         IN  IF val # None THEN Found(val) ELSE ReadRuns(ssts, files, key, i + 1)

\* read_record: MemTable, then the runs newest to oldest; a value that is
\* None is never returned, the search just moves on.
LSM_read_record(s, c, id) ==
    LET key == Key(c, id)
        val == MemTable_get(s, key)
    IN  IF val # None THEN Found(val) ELSE ReadRuns(s.ssts, s.files, key, 1)

\* ------------------------------------------------------------------ actions
SetLsm(s) ==
    /\ memData' = s.mem
    /\ memSize' = s.size
    /\ wal' = s.wal
    /\ sstFiles' = s.files
    /\ sstables' = s.ssts
    /\ lsmOffsets' = s.offsets
    /\ lastWrite' = s.last
    /\ writes' = s.n

\* Bounded exploration: the number of writes bounds the WAL, MemTable.size
\* and the number of runs.
LsmRoom == lsmStatus = "open" /\ writes < MaxWrites

\* initialize() on a new directory, after the container was registered
LsmInit ==
    /\ lsmStatus = "open"
    /\ lsmRecovered = FALSE
    /\ capacity \in 1..MaxCapacity
    /\ memData = EmptyDict
    /\ memSize = 0
    /\ wal = <<>>
    /\ sstFiles = <<>>
    /\ sstables = <<>>
    /\ lsmRegistered = TRUE
    /\ lsmOffsets = <<>>
    /\ lastWrite = [i \in Ids |-> [kind |-> "none"]]
    /\ writes = 0

LsmInsertRecord(rec) ==
    /\ LsmRoom
    /\ SetLsm(LSM_insert_record(LsmState, Users, rec))
    /\ UNCHANGED <<lsmStatus, lsmRecovered, capacity, lsmRegistered>>
    /\ UNCHANGED <<feVars, tblVars, blkVars, libVars>>

LsmDeleteRecord(id) ==
    /\ LsmRoom
    /\ SetLsm(LSM_delete_record(LsmState, Users, id))
    /\ UNCHANGED <<lsmStatus, lsmRecovered, capacity, lsmRegistered>>
    /\ UNCHANGED <<feVars, tblVars, blkVars, libVars>>

\* close(): only the WAL handle is closed
LsmClose ==
    /\ lsmStatus = "open"
    /\ lsmStatus' = "closed"
    /\ UNCHANGED <<lsmRecovered, capacity, memData, memSize, wal, sstFiles, sstables,
                   lsmRegistered, lsmOffsets, lastWrite, writes>>
    /\ UNCHANGED <<feVars, tblVars, blkVars, libVars>>

\* open(): a new MemTable, the runs found on disk, then WAL replay
LsmOpen ==
    /\ lsmStatus \in {"closed", "crashed"}
    /\ lsmStatus' = "open"
    /\ lsmRecovered' = TRUE
    /\ memSize' = 0
    /\ sstables' = LSM_load_sstables(sstFiles)
    /\ memData' = MemTable_recover(wal)
    /\ UNCHANGED <<capacity, wal, sstFiles, lsmRegistered, lsmOffsets, lastWrite, writes>>
    /\ UNCHANGED <<feVars, tblVars, blkVars, libVars>>

LsmNext ==
    \/ \E rec \in PutRecords : LsmInsertRecord(rec)
    \/ \E id \in Ids : LsmDeleteRecord(id)
    \/ LsmClose
    \/ LsmOpen

\* ------------------------------------------------------------------ crashes
\* The process dies: what is in memory is gone, the files stay as they are.
Crashed(s) ==
    /\ lsmStatus' = "crashed"
    /\ wal' = s.wal
    /\ sstFiles' = s.files
    /\ lastWrite' = s.last
    /\ writes' = s.n
    /\ memData' = EmptyDict
    /\ memSize' = 0
    /\ sstables' = <<>>
    /\ lsmRegistered' = FALSE
    /\ lsmOffsets' = <<>>
    /\ UNCHANGED <<lsmRecovered, capacity>>
    /\ UNCHANGED <<feVars, tblVars, blkVars, libVars>>

\* the value a put or a delete of id hands to MemTable.put
PutValues(id) == {r \in PutRecords : r.id = id} \cup {None}

\* between two operations
LsmCrashIdle ==
    /\ lsmStatus = "open"
    /\ Crashed(LsmState)

\* in MemTable.put, after wal.append returned and before data[key] = value
LsmCrashAfterWalAppend(id, value) ==
    /\ LsmRoom
    /\ Crashed(WAL_append(LsmState, Key(Users, id), value))

\* in _flush_memtable, after MemTable.flush() returned and before the run
\* file is opened for writing
LsmCrashAfterWalClear(id, value) ==
    LET s1 == MemTable_put(LsmState, Key(Users, id), value)
    IN  /\ LsmRoom
        /\ MemTable_is_full(s1)
        /\ Crashed(MemTable_flush(s1))

\* in SSTable.write, with the first n items in the file
LsmCrashInSstWrite(id, value, n) ==
    LET s1 == MemTable_put(LsmState, Key(Users, id), value)
        items == SortedItems(s1.mem)
        s2 == MemTable_flush(s1)
    IN  /\ LsmRoom
        /\ MemTable_is_full(s1)
        /\ n < Len(items)
        /\ Crashed([s2 EXCEPT !.files = Append(@, SSTable_write(SubSeq(items, 1, n)))])

LsmCrashNext ==
    \/ LsmNext
    \/ LsmCrashIdle
    \/ \E id \in Ids : \E value \in PutValues(id) : LsmCrashAfterWalAppend(id, value)
    \/ \E id \in Ids : \E value \in PutValues(id) : LsmCrashAfterWalClear(id, value)
    \/ \E id \in Ids : \E value \in PutValues(id) : \E n \in 0..MaxCapacity :
            LsmCrashInSstWrite(id, value, n)

\* ------------------------------------------------------------ LSM: claims
ReadNow(id) == LSM_read_record(LsmState, Users, id)

\* C1: once delete_record(C, id) has returned and until the key is put
\* again, read_record(C, id) raises (never returns a record), wherever the
\* old value and the tombstone live.
C1_DeletedReadsAbsent ==
    lsmStatus = "open" =>
        \A id \in Ids : lastWrite[id].kind = "del" => ReadNow(id) = KeyError

\* C2: when the last write of a key is a put of v', a read returns v',
\* whatever older values of the key lie in the MemTable or in older runs,
\* also after close and reopen.
C2_LastPutWins ==
    lsmStatus = "open" =>
        \A id \in Ids :
            lastWrite[id].kind = "put" => ReadNow(id) = Found(lastWrite[id].rec)

\* C2 witness: a reopened engine whose two newest runs both hold the key,
\* the newer one the value last put and the older one another value.
C2_TwoRunsReopened ==
    /\ lsmStatus = "open"
    /\ lsmRecovered
    /\ Len(sstables) >= 2
    /\ \E id \in Ids :
        /\ lastWrite[id].kind = "put"
        /\ Key(Users, id) \notin DOMAIN memData
        /\ SSTable_get(sstables[1], sstFiles, Key(Users, id)) = lastWrite[id].rec
        /\ SSTable_get(sstables[2], sstFiles, Key(Users, id)) \in
               PutRecords \ {lastWrite[id].rec}

\* C3: open() after close() answers every read as it was answered just
\* before the close.
C3_ReopenKeepsReads ==
    [][(lsmStatus = "closed" /\ lsmStatus' = "open") =>
           \A id \in Ids : ReadNow(id)' = ReadNow(id)]_vars

\* C3 witness: a reopened engine that answers from a replayed MemTable
\* entry for one key and from a run for another.
C3_ReopenedWithWalAndRun ==
    /\ lsmStatus = "open"
    /\ lsmRecovered
    /\ memSize = 0
    /\ \E a \in Ids, b \in Ids :
        /\ Key(Users, a) \in DOMAIN memData
        /\ memData[Key(Users, a)] # None
        /\ Key(Users, b) \notin DOMAIN memData
        /\ ReadNow(b) # KeyError

\* C4: a write whose WAL append has returned survives a crash at any later
\* point: after the reopen a read gives the value last written (KeyError
\* after a delete).
C4_DurableAcrossCrash ==
    [][(lsmStatus = "crashed" /\ lsmStatus' = "open") =>
           \A id \in Ids :
               /\ lastWrite[id].kind = "put" =>
                      ReadNow(id)' = Found(lastWrite[id].rec)
               /\ lastWrite[id].kind = "del" => ReadNow(id)' = KeyError]_vars

\* -------------------------------------------------------------- block codec
BLOCK_HEADER_SIZE == 16

\* struct.pack('I', n): four bytes, least significant first
PackI(n) == <<n % 256, (n \div 256) % 256, (n \div 65536) % 256, (n \div 16777216) % 256>>

\* struct.unpack('I', b)[0]
UnpackI(b) == b[1] + 256 * b[2] + 65536 * b[3] + 16777216 * b[4]

\* sum(data), by halves
RECURSIVE Sum(_)
Sum(data) ==
    IF data = <<>> THEN 0
    ELSE IF Len(data) = 1 THEN data[1]
    ELSE LET h == Len(data) \div 2
         IN  Sum(SubSeq(data, 1, h)) + Sum(SubSeq(data, h + 1, Len(data)))

\* n % (2**32) for n >= 0, taken in two 16-bit halves
Mod32(n) == ((n \div 65536) % 65536) * 65536 + (n % 65536)

\* A checksum that reduces modulo 255 instead of 2**32.
Checksum_Mod255(data) == Sum(data) % 255

\* sum(data) % (2**32)
Checksum(data) == Mod32(Sum(data))

\* block_type.encode('utf-8')[:4].ljust(4, b'\x00')
TypeBytes(t) ==
    LET cut == SubSeq(t, 1, IF Len(t) < 4 THEN Len(t) ELSE 4)
    IN  cut \o [i \in 1..(4 - Len(cut)) |-> 0]

\* str.strip('\x00')
RECURSIVE StripNul(_)
StripNul(t) ==
    IF t = <<>> THEN t
    ELSE IF Head(t) = 0 THEN StripNul(Tail(t))
    ELSE IF t[Len(t)] = 0 THEN StripNul(SubSeq(t, 1, Len(t) - 1))
    ELSE t

\* _create_block: type, size, checksum, four reserved zero bytes, payload
FE_create_block(block_type, data) ==
    TypeBytes(block_type) \o PackI(Len(data)) \o PackI(Checksum(data))
        \o <<0, 0, 0, 0>> \o data

\* bytes[a:b] of Python, 0-based and clipped to the length
Slice(b, from, to) ==
    SubSeq(b, from + 1, IF to < Len(b) THEN to ELSE Len(b))

\* _parse_block: (block_type, data), or the ValueError it raises
FE_parse_block(block) ==
    IF Len(block) < BLOCK_HEADER_SIZE
    THEN [ok |-> FALSE, error |-> "Invalid block size"]
    ELSE LET block_type == StripNul(Slice(block, 0, 4))
             data_size == UnpackI(Slice(block, 4, 8))
             checksum == UnpackI(Slice(block, 8, 12))
             data == Slice(block, BLOCK_HEADER_SIZE, BLOCK_HEADER_SIZE + data_size)
         IN  IF Checksum(data) # checksum
             THEN [ok |-> FALSE, error |-> "Block checksum mismatch"]
             ELSE [ok |-> TRUE, type |-> block_type, data |-> data]

\* The type tags as bytes: "DATA", "META", "TLOG".
DATA == <<68, 65, 84, 65>>
META == <<77, 69, 84, 65>>
TLOG == <<84, 76, 79, 71>>

\* The payload bytes tried: the extremes and two neighbours.
Bytes == {0, 1, 254, 255}

Payloads == UNION {[1..n -> Bytes] : n \in 0..MaxPayload}

BlkInit ==
    /\ blkPc = "new"
    /\ blkType \in {DATA, META, TLOG}
    /\ blkPayload \in Payloads
    /\ blkBlock = <<>>
    /\ blkHit = 0
    /\ blkResult = [ok |-> FALSE, error |-> "none"]

\* no block in hand
BlkIdle ==
    /\ blkPc = "new"
    /\ blkType = DATA
    /\ blkPayload = <<>>
    /\ blkBlock = <<>>
    /\ blkHit = 0
    /\ blkResult = [ok |-> FALSE, error |-> "none"]

\* block = _create_block(type, payload)
BlkCreate ==
    /\ blkPc = "new"
    /\ blkPc' = "framed"
    /\ blkBlock' = FE_create_block(blkType, blkPayload)
    /\ UNCHANGED <<blkType, blkPayload, blkHit, blkResult>>
    /\ UNCHANGED <<lsmVars, feVars, tblVars, libVars>>

\* one payload byte of the framed block is changed to a different value
BlkPerturb(i, b) ==
    /\ blkPc = "framed"
    /\ blkHit = 0
    /\ i \in 1..Len(blkPayload)
    /\ b # blkPayload[i]
    /\ blkBlock' = [blkBlock EXCEPT ![BLOCK_HEADER_SIZE + i] = b]
    /\ blkHit' = i
    /\ UNCHANGED <<blkPc, blkType, blkPayload, blkResult>>
    /\ UNCHANGED <<lsmVars, feVars, tblVars, libVars>>

\* _parse_block(block)
BlkParse ==
    /\ blkPc = "framed"
    /\ blkPc' = "parsed"
    /\ blkResult' = FE_parse_block(blkBlock)
    /\ UNCHANGED <<blkType, blkPayload, blkBlock, blkHit>>
    /\ UNCHANGED <<lsmVars, feVars, tblVars, libVars>>

BlkNext ==
    \/ BlkCreate
    \/ \E i \in 1..MaxPayload : \E b \in Bytes : BlkPerturb(i, b)
    \/ BlkParse

\* ------------------------------------------------------ block codec: claims
\* C10: parsing a block as framed gives back the type and the payload, and
\* the stored checksum is the payload's byte sum modulo 2^32; parsing a
\* block one payload byte of which was changed fails with a checksum
\* mismatch.
C10_ChecksumRoundTrip ==
    /\ blkPc # "new" /\ blkHit = 0 =>
           UnpackI(Slice(blkBlock, 8, 12)) = Mod32(Sum(blkPayload))
    /\ blkPc = "parsed" /\ blkHit = 0 =>
           blkResult = [ok |-> TRUE, type |-> blkType, data |-> blkPayload]
    /\ blkPc = "parsed" /\ blkHit # 0 =>
           blkResult = [ok |-> FALSE, error |-> "Block checksum mismatch"]

\* C10 witness: a block whose payload byte 0 was changed to 255 (a change
\* of the sum by a multiple of 255) has been parsed.
C10_PerturbedParsed ==
    /\ blkPc = "parsed"
    /\ blkHit # 0
    /\ blkPayload[blkHit] = 0
    /\ blkBlock[BLOCK_HEADER_SIZE + blkHit] = 255

\* --------------------------------------------------------------------- JSON
\* json.dumps(record).encode('utf-8') of {"name": s, "age": n, "id": i}:
\* {"name": "s", "age": n, "id": i}
JSON_dumps(r) ==
    <<123, 34, 110, 97, 109, 101, 34, 58, 32, 34, r.name, 34>>
        \o <<44, 32, 34, 97, 103, 101, 34, 58, 32>> \o Str(r.age)
        \o <<44, 32, 34, 105, 100, 34, 58, 32>> \o Str(r.id) \o <<125>>

IsDigit(b) == b >= 48 /\ b <= 57

\* the end of the run of digits that starts at position i
RECURSIVE DigitsEnd(_, _)
DigitsEnd(b, i) == IF i <= Len(b) /\ IsDigit(b[i]) THEN DigitsEnd(b, i + 1) ELSE i

\* int() of the digits b[i..j-1]
RECURSIVE ParseInt(_, _, _)
ParseInt(b, i, j) ==
    IF j <= i THEN 0 ELSE 10 * ParseInt(b, i, j - 1) + (b[j - 1] - 48)

\* json.loads of such bytes: the name character, then the two numbers
JSON_loads(b) ==
    LET ageAt == 22
        ageEnd == DigitsEnd(b, ageAt)
        idAt == ageEnd + 8
        idEnd == DigitsEnd(b, idAt)
    IN  [name |-> b[11], age |-> ParseInt(b, ageAt, ageEnd),
         id |-> ParseInt(b, idAt, idEnd)]

\* -------------------------------------------------------------- CacheManager
\* An entry is a key, the dict object held (obj names the object: two
\* entries with one obj are one dict) and the dict's present content.
CacheHas(c, key) == \E i \in 1..Len(c) : c[i].key = key

CacheAt(c, key) == CHOOSE i \in 1..Len(c) : c[i].key = key

SeqDrop(q, i) == SubSeq(q, 1, i - 1) \o SubSeq(q, i + 1, Len(q))

\* OrderedDict.move_to_end(key)
MoveToEnd(c, key) == LET i == CacheAt(c, key) IN SeqDrop(c, i) \o <<c[i]>>

\* get that leaves a hit entry where it is
Cache_get_NoTouch(c, key) == c

\* get: a hit moves the entry to the recent end (the counters are kept by
\* the caller's action)
Cache_get(c, key) == IF CacheHas(c, key) THEN MoveToEnd(c, key) ELSE c

\* put: move to the end when present, store, evict the oldest when over
Cache_put(c, cap, key, obj, val) ==
    LET e == [key |-> key, obj |-> obj, val |-> val]
        c1 == IF CacheHas(c, key)
              THEN LET m == MoveToEnd(c, key) IN [m EXCEPT ![Len(m)] = e]
              ELSE Append(c, e)
    IN  IF Len(c1) > cap THEN Tail(c1) ELSE c1

\* invalidate
Cache_invalidate(c, key) == IF CacheHas(c, key) THEN SeqDrop(c, CacheAt(c, key)) ELSE c

\* ---------------------------------------------------------------- BTreeIndex
BTreeNode == [keys |-> <<>>, values |-> <<>>, children |-> <<>>, is_leaf |-> TRUE]

\* BTreeIndex(order)
BTreeIndex(order) == [order |-> order, root |-> BTreeNode, size |-> 0]

\* list.insert(i, x), i 0-based
ListInsert(l, i, x) == SubSeq(l, 1, i) \o <<x>> \o SubSeq(l, i + 1, Len(l))

\* _split_child taking the promoted offset from the key before the median
BT_split_child_NeighbourValue(parent, index, order) ==
    LET full_child == parent.children[index + 1]
        mid == order - 1
        n == Len(full_child.keys)
        new_child ==
            [keys |-> SubSeq(full_child.keys, mid + 2, n),
             values |-> SubSeq(full_child.values, mid + 2, n),
             children |-> IF full_child.is_leaf THEN <<>>
                          ELSE SubSeq(full_child.children, mid + 2,
                                      Len(full_child.children)),
             is_leaf |-> full_child.is_leaf]
        left ==
            [keys |-> SubSeq(full_child.keys, 1, mid),
             values |-> SubSeq(full_child.values, 1, mid),
             children |-> IF full_child.is_leaf THEN full_child.children
                          ELSE SubSeq(full_child.children, 1, mid + 1),
             is_leaf |-> full_child.is_leaf]
    IN  [keys |-> ListInsert(parent.keys, index, full_child.keys[mid + 1]),
         values |-> ListInsert(parent.values, index, full_child.values[mid]),
         children |-> ListInsert([parent.children EXCEPT ![index + 1] = left],
                                 index + 1, new_child),
         is_leaf |-> parent.is_leaf]

\* _split_child with mid = order - 2: the key before the median goes up
BT_split_child_LowMedian(parent, index, order) ==
    LET full_child == parent.children[index + 1]
        mid == order - 2
        n == Len(full_child.keys)
        new_child ==
            [keys |-> SubSeq(full_child.keys, mid + 2, n),
             values |-> SubSeq(full_child.values, mid + 2, n),
             children |-> IF full_child.is_leaf THEN <<>>
                          ELSE SubSeq(full_child.children, mid + 2,
                                      Len(full_child.children)),
             is_leaf |-> full_child.is_leaf]
        left ==
            [keys |-> SubSeq(full_child.keys, 1, mid),
             values |-> SubSeq(full_child.values, 1, mid),
             children |-> IF full_child.is_leaf THEN full_child.children
                          ELSE SubSeq(full_child.children, 1, mid + 1),
             is_leaf |-> full_child.is_leaf]
    IN  [keys |-> ListInsert(parent.keys, index, full_child.keys[mid + 1]),
         values |-> ListInsert(parent.values, index, full_child.values[mid + 1]),
         children |-> ListInsert([parent.children EXCEPT ![index + 1] = left],
                                 index + 1, new_child),
         is_leaf |-> parent.is_leaf]

\* _split_child(parent, index), index 0-based
BT_split_child(parent, index, order) ==
    LET full_child == parent.children[index + 1]
        mid == order - 1
        n == Len(full_child.keys)
        new_child ==
            [keys |-> SubSeq(full_child.keys, mid + 2, n),
             values |-> SubSeq(full_child.values, mid + 2, n),
             children |-> IF full_child.is_leaf THEN <<>>
                          ELSE SubSeq(full_child.children, mid + 2,
                                      Len(full_child.children)),
             is_leaf |-> full_child.is_leaf]
        left ==
            [keys |-> SubSeq(full_child.keys, 1, mid),
             values |-> SubSeq(full_child.values, 1, mid),
             children |-> IF full_child.is_leaf THEN full_child.children
                          ELSE SubSeq(full_child.children, 1, mid + 1),
             is_leaf |-> full_child.is_leaf]
    IN  [keys |-> ListInsert(parent.keys, index, full_child.keys[mid + 1]),
         values |-> ListInsert(parent.values, index, full_child.values[mid + 1]),
         children |-> ListInsert([parent.children EXCEPT ![index + 1] = left],
                                 index + 1, new_child),
         is_leaf |-> parent.is_leaf]

\* while i >= 0 and key < node.keys[i]: i -= 1   (i 0-based)
RECURSIVE BT_scan_down(_, _, _)
BT_scan_down(keys, key, i) ==
    IF i >= 0 /\ key < keys[i + 1] THEN BT_scan_down(keys, key, i - 1) ELSE i

RECURSIVE BT_insert_non_full(_, _, _, _)
BT_insert_non_full(node, key, value, order) ==
    LET i == BT_scan_down(node.keys, key, Len(node.keys) - 1)
    IN  IF node.is_leaf
        THEN [node EXCEPT !.keys = ListInsert(@, i + 1, key),
                          !.values = ListInsert(@, i + 1, value)]
        ELSE LET j == i + 1
                 full == Len(node.children[j + 1].keys) >= 2 * order - 1
                 n1 == IF full THEN BT_split_child(node, j, order) ELSE node
                 k == IF full /\ key > n1.keys[j + 1] THEN j + 1 ELSE j
             IN  [n1 EXCEPT !.children[k + 1] =
                      BT_insert_non_full(n1.children[k + 1], key, value, order)]

\* insert that never splits a full root
BT_insert_NoRootSplit(index, key, value) ==
    [index EXCEPT !.root = BT_insert_non_full(index.root, key, value, index.order),
                  !.size = @ + 1]

\* insert(key, value)
BT_insert(index, key, value) ==
    LET root == IF Len(index.root.keys) >= 2 * index.order - 1
                THEN BT_split_child([keys |-> <<>>, values |-> <<>>,
                                     children |-> <<index.root>>, is_leaf |-> FALSE],
                                    0, index.order)
                ELSE index.root
    IN  [index EXCEPT !.root = BT_insert_non_full(root, key, value, index.order),
                      !.size = @ + 1]

\* while i < len(node.keys) and key > node.keys[i]: i += 1   (i 0-based)
RECURSIVE BT_scan_up(_, _, _)
BT_scan_up(keys, key, i) ==
    IF i < Len(keys) /\ key > keys[i + 1] THEN BT_scan_up(keys, key, i + 1) ELSE i

\* _search_node: Some(the offset stored with the key), or None
RECURSIVE BT_search_node(_, _)
BT_search_node(node, key) ==
    LET i == BT_scan_up(node.keys, key, 0)
    IN  IF i < Len(node.keys) /\ key = node.keys[i + 1] THEN Some(node.values[i + 1])
        ELSE IF node.is_leaf THEN None
        ELSE BT_search_node(node.children[i + 1], key)

\* search(key)
BT_search(index, key) == BT_search_node(index.root, key)

\* _range_search_node that visits the last child by start, not by end
RECURSIVE BT_range_search_node_LastChildByStart(_, _, _, _, _)
BT_range_search_node_LastChildByStart(node, start, end, results, i) ==
    IF i < Len(node.keys)
    THEN LET r1 == IF ~node.is_leaf /\ start <= node.keys[i + 1]
                   THEN BT_range_search_node_LastChildByStart(node.children[i + 1],
                                                              start, end, results, 0)
                   ELSE results
             r2 == IF start <= node.keys[i + 1] /\ node.keys[i + 1] <= end
                   THEN Append(r1, <<node.keys[i + 1], node.values[i + 1]>>)
                   ELSE r1
         IN  BT_range_search_node_LastChildByStart(node, start, end, r2, i + 1)
    ELSE IF ~node.is_leaf /\ start >= node.keys[i]
         THEN BT_range_search_node_LastChildByStart(node.children[i + 1], start, end,
                                                    results, 0)
         ELSE results

\* _range_search_node(node, start, end, results): results after the call.
\* The while loop from position i on (i 0-based), then the last child.
RECURSIVE BT_range_search_node(_, _, _, _, _)
BT_range_search_node(node, start, end, results, i) ==
    IF i < Len(node.keys)
    THEN LET r1 == IF ~node.is_leaf /\ start <= node.keys[i + 1]
                   THEN BT_range_search_node(node.children[i + 1], start, end,
                                             results, 0)
                   ELSE results
             r2 == IF start <= node.keys[i + 1] /\ node.keys[i + 1] <= end
                   THEN Append(r1, <<node.keys[i + 1], node.values[i + 1]>>)
                   ELSE r1
         IN  BT_range_search_node(node, start, end, r2, i + 1)
    ELSE IF ~node.is_leaf /\ end >= node.keys[i]
         THEN BT_range_search_node(node.children[i + 1], start, end, results, 0)
         ELSE results

\* range_search(start_key, end_key)
BT_range_search(index, start_key, end_key) ==
    BT_range_search_node(index.root, start_key, end_key, <<>>, 0)

\* --------------------------------------------------------------- FileManager
\* The file size after create(): the fixed header and the META block.  The
\* blocks appended later start here.
FileStart == 128

\* append_block on the file content f.bytes: the offset the block went to
FM_append_block(f, block) ==
    [st |-> [f EXCEPT !.bytes = @ \o block], ret |-> FileStart + Len(f.bytes)]

\* read_block(offset, size): the bytes there, fewer at the end of the file
FM_read_block(bytes, offset, size) ==
    IF offset < FileStart THEN <<>>
    ELSE Slice(bytes, offset - FileStart, offset - FileStart + size)

\* -------------------------------------------------------- FileStorageEngine
\* The engine as one value.
FeState ==
    [bytes |-> fmBytes, cap |-> cacheSize, cache |-> cache, index |-> idIndex,
     offsets |-> feOffsets, tlog |-> tlog, ins |-> inserted]

\* The dict objects the engine holds a reference to, and a name for a new
\* dict (the least unused one).
ObjsInUse(f) ==
    {f.cache[i].obj : i \in 1..Len(f.cache)} \cup {f.tlog[i].obj : i \in 1..Len(f.tlog)}

NewObj(f) ==
    CHOOSE n \in 1..(Cardinality(ObjsInUse(f)) + 1) :
        n \notin ObjsInUse(f) /\ \A m \in 1..(n - 1) : m \in ObjsInUse(f)

\* A dict the caller changes in place is changed wherever it is held.
FE_mutate(f, obj, val) ==
    [f EXCEPT !.cache = [i \in 1..Len(@) |->
                            IF @[i].obj = obj THEN [@[i] EXCEPT !.val = val] ELSE @[i]],
              !.tlog = [i \in 1..Len(@) |->
                            IF @[i].obj = obj THEN [@[i] EXCEPT !.data = val] ELSE @[i]]]

\* _log_transaction
FE_log_transaction(f, operation, target, obj, data) ==
    [f EXCEPT !.tlog = Append(@, [operation |-> operation, target |-> target,
                                  obj |-> obj, data |-> data])]

\* _update_indexes: the container has the one index on 'id'
FE_update_indexes(f, record, offset) ==
    [f EXCEPT !.index = BT_insert(@, record.id, offset)]

\* insert_record(c, record), record being the dict obj: st is the engine
\* afterwards, ret the offset returned
FE_insert_record(f, c, record, obj) ==
    LET block == FE_create_block(DATA, JSON_dumps(record))
        a == FM_append_block(f, block)
        offset == a.ret
        f1 == [a.st EXCEPT !.cache = Cache_put(@, f.cap, Str(offset), obj, record),
                           !.ins = DictSet(@, offset, record)]
        f2 == FE_update_indexes(f1, record, offset)
        f3 == [f2 EXCEPT !.offsets = Append(@, offset)]
    IN  [st |-> FE_log_transaction(f3, "INSERT", c, obj, record), ret |-> offset]

\* read_record(c, record_id): the cached dict, or the block decoded and
\* cached as a new dict; ok is FALSE when the read raises
FE_read_record(f, c, record_id) ==
    LET offset == record_id
        key == Str(offset)
    IN  IF CacheHas(f.cache, key)
        THEN LET e == f.cache[CacheAt(f.cache, key)]
             IN  [st |-> [f EXCEPT !.cache = Cache_get(@, key)],
                  ok |-> TRUE, rec |-> e.val, obj |-> e.obj]
        ELSE LET header == FM_read_block(f.bytes, offset, BLOCK_HEADER_SIZE)
             IN  IF Len(header) < 8 THEN [st |-> f, ok |-> FALSE]
                 ELSE LET data_size == UnpackI(Slice(header, 4, 8))
                          block == FM_read_block(f.bytes, offset,
                                                 BLOCK_HEADER_SIZE + data_size)
                          parsed == FE_parse_block(block)
                      IN  IF ~parsed.ok \/ parsed.type # DATA
                          THEN [st |-> f, ok |-> FALSE]
                          ELSE LET record == JSON_loads(parsed.data)
                                   obj == NewObj(f)
                               IN  [st |-> [f EXCEPT !.cache =
                                               Cache_put(@, f.cap, key, obj, record)],
                                    ok |-> TRUE, rec |-> record, obj |-> obj]

\* _resolve_id_to_offset: what the id index has for the id
FE_resolve_id_to_offset(f, record_id) == BT_search(f.index, record_id)

\* update_record(c, record_id, record): a new version is appended, the
\* cache entry of the offset the id resolves to is dropped
FE_update_record(f, c, record_id, record, obj) ==
    LET found == FE_resolve_id_to_offset(f, record_id)
        old_offset == IF found = None THEN Some(record_id) ELSE found
        ins == FE_insert_record(f, c, record, obj)
        f1 == [ins.st EXCEPT !.cache = Cache_invalidate(@, Str(old_offset.some))]
    IN  [st |-> FE_log_transaction(f1, "UPDATE", old_offset, obj, record),
         ret |-> ins.ret]

\* delete_record(c, record_id): the cache entry goes, a DELETE is logged
FE_delete_record(f, c, record_id) ==
    LET found == FE_resolve_id_to_offset(f, record_id)
        offset == IF found = None THEN Some(record_id) ELSE found
        f1 == [f EXCEPT !.cache = Cache_invalidate(@, Str(offset.some))]
    IN  FE_log_transaction(f1, "DELETE", c, NewObj(f1), [id |-> record_id])

\* scan_table from position i of the offset list on: the records read, in
\* list order; an offset whose read raises is passed over
RECURSIVE FE_scan_from(_, _, _, _)
FE_scan_from(f, c, i, records) ==
    IF i > Len(f.offsets) THEN [st |-> f, recs |-> records]
    ELSE LET r == FE_read_record(f, c, f.offsets[i])
         IN  FE_scan_from(r.st, c, i + 1,
                          IF r.ok THEN Append(records, r.rec) ELSE records)

FE_scan_table(f, c) == FE_scan_from(f, c, 1, <<>>)

\* ------------------------------------------------------ LSM engine: scan
\* results[key] = val / results.pop(key, None) on a dict kept as a sequence
\* of <<key, value>> in insertion order
OD_has(od, k) == \E i \in 1..Len(od) : od[i][1] = k

OD_set(od, k, v) ==
    IF OD_has(od, k)
    THEN [i \in 1..Len(od) |-> IF od[i][1] = k THEN <<k, v>> ELSE od[i]]
    ELSE Append(od, <<k, v>>)

OD_pop(od, k) ==
    IF OD_has(od, k) THEN SeqDrop(od, CHOOSE i \in 1..Len(od) : od[i][1] = k) ELSE od

\* the loop body of scan_table over a sequence of <<key, value>>
RECURSIVE LSM_scan_items(_, _, _)
LSM_scan_items(results, items, prefix) ==
    IF items = <<>> THEN results
    ELSE LET key == Head(items)[1]
             val == Head(items)[2]
             r1 == IF ~StartsWith(key, prefix) THEN results
                   ELSE IF val # None THEN OD_set(results, key, val)
                   ELSE OD_pop(results, key)
         IN  LSM_scan_items(r1, Tail(items), prefix)

\* A scan that takes the runs newest first, so that the oldest value stays.
RECURSIVE LSM_scan_runs_NewestFirst(_, _, _, _)
LSM_scan_runs_NewestFirst(s, results, i, prefix) ==
    IF i < 1 THEN results
    ELSE LET sst == s.ssts[Len(s.ssts) - i + 1]
             content == s.files[sst.path + 1]
             items == [j \in 1..Len(sst.index) |->
                          <<sst.index[j][1], SSTable_read_at(content, sst.index[j][2])>>]
         IN  LSM_scan_runs_NewestFirst(s, LSM_scan_items(results, items, prefix),
                                       i - 1, prefix)

\* the runs from position i (oldest) up to the newest
RECURSIVE LSM_scan_runs(_, _, _, _)
LSM_scan_runs(s, results, i, prefix) ==
    IF i < 1 THEN results
    ELSE LET content == s.files[s.ssts[i].path + 1]
             index == s.ssts[i].index
             items == [j \in 1..Len(index) |->
                          <<index[j][1], SSTable_read_at(content, index[j][2])>>]
         IN  LSM_scan_runs(s, LSM_scan_items(results, items, prefix), i - 1, prefix)

\* scan_table: oldest run first, the MemTable last (its entries are taken
\* in key order), the values that remain
LSM_scan_table(s, c) ==
    LET prefix == c \o <<58>>
        fromRuns == LSM_scan_runs(s, <<>>, Len(s.ssts), prefix)
        all == LSM_scan_items(fromRuns, SortedItems(s.mem), prefix)
    IN  [i \in 1..Len(all) |-> all[i][2]]

\* ------------------------------------------------- the row-tier contract
\* The database a Table works on: the engine it was created with and that
\* engine's state.
DbState == [kind |-> engine, s |-> LsmState, f |-> FeState]

\* metadata['tables'][name]['offsets'], the live list
Eng_offsets(db) == IF db.kind = "file" THEN db.f.offsets ELSE db.s.offsets

\* offsets[i] = v (i 0-based) and table_info['offsets'] = l
Eng_set_offset(db, i, v) ==
    IF db.kind = "file" THEN [db EXCEPT !.f.offsets[i + 1] = v]
    ELSE [db EXCEPT !.s.offsets[i + 1] = v]

Eng_set_offsets(db, l) ==
    IF db.kind = "file" THEN [db EXCEPT !.f.offsets = l] ELSE [db EXCEPT !.s.offsets = l]

\* storage_engine.insert_record(name, record) with a dict of the caller
Eng_insert_record(db, c, record) ==
    IF db.kind = "file"
    THEN [db EXCEPT !.f = FE_insert_record(db.f, c, record, NewObj(db.f)).st]
    ELSE [db EXCEPT !.s = LSM_insert_record(db.s, c, record)]

\* storage_engine.read_record(name, offset).  The LSM engine hands out the
\* MemTable's own dict (obj "mem") or one decoded from a run (obj "run").
Eng_read_record(db, c, offset) ==
    IF db.kind = "file"
    THEN LET r == FE_read_record(db.f, c, offset)
         IN  IF r.ok THEN [db |-> [db EXCEPT !.f = r.st], ok |-> TRUE,
                           rec |-> r.rec, obj |-> r.obj]
             ELSE [db |-> db, ok |-> FALSE]
    ELSE LET r == LSM_read_record(db.s, c, offset)
         IN  IF r.ok THEN [db |-> db, ok |-> TRUE, rec |-> r.rec,
                           obj |-> IF MemTable_get(db.s, Key(c, offset)) # None
                                   THEN "mem" ELSE "run"]
             ELSE [db |-> db, ok |-> FALSE]

\* record.update(updates) on the dict read_record returned: every holder of
\* that dict sees the change
Eng_mutate(db, c, offset, obj, val) ==
    IF db.kind = "file" THEN [db EXCEPT !.f = FE_mutate(@, obj, val)]
    ELSE IF obj = "mem" THEN [db EXCEPT !.s.mem[Key(c, offset)] = val]
    ELSE db

\* storage_engine.update_record(name, record_id, record)
Eng_update_record(db, c, record_id, record, obj) ==
    IF db.kind = "file"
    THEN LET u == FE_update_record(db.f, c, record_id, record, obj)
         IN  [db |-> [db EXCEPT !.f = u.st], ret |-> u.ret]
    ELSE [db |-> [db EXCEPT !.s = LSM_update_record(@, c, record_id, record)],
          ret |-> record.id]

\* storage_engine.delete_record(name, record_id)
Eng_delete_record(db, c, record_id) ==
    IF db.kind = "file" THEN [db EXCEPT !.f = FE_delete_record(@, c, record_id)]
    ELSE [db EXCEPT !.s = LSM_delete_record(@, c, record_id)]

\* storage_engine.scan_table(name)
Eng_scan_table(db, c) ==
    IF db.kind = "file"
    THEN LET r == FE_scan_table(db.f, c) IN [db |-> [db EXCEPT !.f = r.st], recs |-> r.recs]
    ELSE [db |-> db, recs |-> LSM_scan_table(db.s, c)]

\* ------------------------------------------------------------ QueryProcessor
\* _matches_query for exact-match conditions: every field of the query is
\* in the document with that value
QP_matches_query(document, query) ==
    \A k \in DOMAIN query : k \in DOMAIN document /\ document[k] = query[k]

\* [doc for doc in results if _matches_query(doc, query)]
RECURSIVE QP_filter(_, _)
QP_filter(results, query) ==
    IF results = <<>> THEN <<>>
    ELSE (IF QP_matches_query(Head(results), query) THEN <<Head(results)>> ELSE <<>>)
             \o QP_filter(Tail(results), query)

\* execute: through the id index when the query names 'id' and the engine
\* has indexes (the append engine), else a full scan; then the filter
QP_execute(db, c, query) ==
    LET cand ==
            IF db.kind = "file" /\ "id" \in DOMAIN query
            THEN LET offset == BT_search(db.f.index, query.id)
                 IN  IF offset = None THEN [db |-> db, recs |-> <<>>]
                     ELSE LET r == Eng_read_record(db, c, offset.some)
                          IN  [db |-> r.db,
                               recs |-> IF r.ok THEN <<r.rec>> ELSE <<>>]
            ELSE Eng_scan_table(db, c)
    IN  [db |-> cand.db, recs |-> QP_filter(cand.recs, query)]

\* ---------------------------------------------------------------------- Table
\* The schema of the table: name a string, age an integer.
\* _validate_record: every column in the schema or 'id', every value of the
\* schema's type
Table_validate_record(record) ==
    /\ DOMAIN record \subseteq {"name", "age", "id"}
    /\ "age" \in DOMAIN record => record.age # BadAge

\* dict.update(updates)
DictUpdate(record, updates) ==
    [k \in (DOMAIN record) \cup (DOMAIN updates) |->
        IF k \in DOMAIN updates THEN updates[k] ELSE record[k]]

\* select(where)
Table_select(db, c, where) == QP_execute(db, c, where)

\* count()
Table_count(db) == Len(Eng_offsets(db))

\* delete(where) from position i (0-based) of the live offset list on: db
\* is the database afterwards, ret the count returned
RECURSIVE Table_delete_from(_, _, _, _, _, _)
Table_delete_from(db, c, where, i, new_offsets, count) ==
    IF i >= Len(Eng_offsets(db))
    THEN [db |-> Eng_set_offsets(db, new_offsets), ret |-> count]
    ELSE LET offset == Eng_offsets(db)[i + 1]
             r == Eng_read_record(db, c, offset)
         IN  IF r.ok /\ QP_matches_query(r.rec, where)
             THEN Table_delete_from(Eng_delete_record(r.db, c, r.rec.id), c, where,
                                    i + 1, new_offsets, count + 1)
             ELSE Table_delete_from(r.db, c, where, i + 1,
                                    Append(new_offsets, offset), count)

Table_delete(db, c, where) == Table_delete_from(db, c, where, 0, <<>>, 0)

\* One pass of update's loop body, for offsets[i] (i 0-based): db is the
\* database afterwards, hit tells whether count was incremented, new the
\* offset update_record returned.
Table_update_body(db, c, i, where, updates) ==
    LET offset == Eng_offsets(db)[i + 1]
        r == Eng_read_record(db, c, offset)
    IN  IF ~r.ok THEN [db |-> db, hit |-> FALSE]
        ELSE IF ~QP_matches_query(r.rec, where) THEN [db |-> r.db, hit |-> FALSE]
        ELSE LET record == DictUpdate(r.rec, updates)
                 db1 == Eng_mutate(r.db, c, offset, r.obj, record)
             IN  IF ~Table_validate_record(record) THEN [db |-> db1, hit |-> FALSE]
                 ELSE LET u == Eng_update_record(db1, c, record.id, record, r.obj)
                      IN  [db |-> Eng_set_offset(u.db, i, u.ret), hit |-> TRUE,
                           old |-> offset, new |-> u.ret, rec |-> record]

\* ------------------------------------------------- BTreeIndex: actions
\* create_index(container_name, field='id', order=4)
BTREE_ORDER == 4

\* The insert sequence of the determinism scenario.
Scenario == <<10, 20, 5, 6, 12, 30, 7, 17>>

\* The keys given to insert: those of the scenario and a few above them.
BTKeys == {Scenario[i] : i \in 1..Len(Scenario)} \cup {30 + i : i \in 1..MaxExtraKeys}

\* The keys looked up: the keys given to insert, one below and one above all.
BTProbes == BTKeys \cup {0, 99}

\* The offset given with a key (index.insert(1, 100), index.insert(2, 200)).
BTOffset(key) == 100 * key

\* BTreeIndex(order), nothing inserted
BtInit ==
    /\ \E order \in 2..MaxOrder : btIndex = BTreeIndex(order)
    /\ btKeys = {}
    /\ btScen = 0

\* no index in hand
BtIdle ==
    /\ btIndex = BTreeIndex(BTREE_ORDER)
    /\ btKeys = {}
    /\ btScen = -1

\* index.insert(key, offset) with a key not inserted before
BtInsert(key) ==
    /\ key \notin btKeys
    /\ btIndex' = BT_insert(btIndex, key, BTOffset(key))
    /\ btKeys' = btKeys \cup {key}
    /\ btScen' = IF /\ btIndex.order = 2
                    /\ btScen >= 0
                    /\ btScen < Len(Scenario)
                    /\ key = Scenario[btScen + 1]
                 THEN btScen + 1
                 ELSE -1
    /\ UNCHANGED <<lsmVars, feVars, tblVars, blkVars, walVars, ringVars, tierVars, extVars>>

BtNext == \E key \in BTKeys : BtInsert(key)

\* ------------------------------------------------------ WAL file: actions
\* WAL.append: struct.pack('II', len(key), len(val)) + key + val
WAL_entry(key, value) ==
    PackI(Len(key)) \o PackI(Len(Pack(value))) \o key \o Pack(value)

\* msgpack.unpackb(b): the value, or the exception it raises when b is not
\* exactly one packed object (cut short, or empty)
Unpackb(b) ==
    IF \E v \in Records \cup {None} : Pack(v) = b
    THEN [ok |-> TRUE, value |-> Unpack(b)]
    ELSE [ok |-> FALSE, error |-> "ValueError"]

\* WAL.recover from byte position pos on, entries read so far: the list it
\* returns, or the exception that leaves it.  f.read(n) past the end of the
\* file returns what is left.
RECURSIVE WAL_recover_from(_, _, _)
WAL_recover_from(file, pos, entries) ==
    LET header == Slice(file, pos, pos + 8)
    IN  IF Len(header) < 8 THEN [ok |-> TRUE, entries |-> entries]
        ELSE LET k_len == UnpackI(SubSeq(header, 1, 4))
                 v_len == UnpackI(SubSeq(header, 5, 8))
                 key == Slice(file, pos + 8, pos + 8 + k_len)
                 val_bytes == Slice(file, pos + 8 + k_len, pos + 8 + k_len + v_len)
                 value == Unpackb(val_bytes)
             IN  IF ~value.ok THEN [ok |-> FALSE, error |-> value.error]
                 ELSE WAL_recover_from(file, pos + 8 + k_len + v_len,
                                       Append(entries, <<key, value.value>>))

\* WAL.recover(path) of an existing file
WAL_recover_file(file) == WAL_recover_from(file, 0, <<>>)

\* WAL(path) on a new file
WalInit ==
    /\ walPc = "writing"
    /\ walFile = <<>>
    /\ walLog = <<>>
    /\ walCutAt = -1
    /\ walOut = [ok |-> TRUE, entries |-> <<>>]

\* wal.append(key, value)
WalAppend(id, value) ==
    /\ walPc = "writing"
    /\ Len(walLog) < MaxWalEntries
    /\ walFile' = walFile \o WAL_entry(Key(Users, id), value)
    /\ walLog' = Append(walLog, <<Key(Users, id), value>>)
    /\ UNCHANGED <<walPc, walCutAt, walOut>>
    /\ UNCHANGED <<lsmVars, feVars, tblVars, blkVars, btVars, ringVars, tierVars, extVars>>

\* the process is gone and the file is found n bytes long
WalCut(n) ==
    /\ walPc = "writing"
    /\ n \in 0..Len(walFile)
    /\ walFile' = SubSeq(walFile, 1, n)
    /\ walCutAt' = n
    /\ walPc' = "cut"
    /\ UNCHANGED <<walLog, walOut>>
    /\ UNCHANGED <<lsmVars, feVars, tblVars, blkVars, btVars, ringVars, tierVars, extVars>>

\* WAL.recover(path)
WalRecover ==
    /\ walPc \in {"writing", "cut"}
    /\ walOut' = WAL_recover_file(walFile)
    /\ walPc' = "recovered"
    /\ UNCHANGED <<walFile, walLog, walCutAt>>
    /\ UNCHANGED <<lsmVars, feVars, tblVars, blkVars, btVars, ringVars, tierVars, extVars>>

WalNext ==
    \/ \E id \in Ids : \E value \in PutValues(id) : WalAppend(id, value)
    \/ \E n \in 0..Len(walFile) : WalCut(n)
    \/ WalRecover

\* ------------------------------------------------------ ConsistentHashRing
\* ConsistentHashRing(nodes, replicas): the virtual nodes per node.
Replicas == 2

\* The nodes added and removed.
RingNodes == {"n1", "n2", "n3"}

\* f"{node}:{i}" for i in range(replicas): the strings add_node hashes.
\* They are also the keys looked up: get_node("n1:0") hashes to the very
\* value of a virtual node of n1.
Labels == [node : RingNodes, i : 0..(Replicas - 1)]

\* The values _hash takes on these strings.
HashSpace == 0..(Cardinality(Labels) - 1)

\* _hash(key): SHA-256 as an integer, a fixed function without collisions
RING_hash(key) == ringHash[key]

\* bisect.bisect(a, x) = bisect_right: the first index whose element is > x
\* (0-based), len(a) when there is none
RECURSIVE BisectRight(_, _, _)
BisectRight(a, x, i) ==
    IF i < Len(a) /\ a[i + 1] <= x THEN BisectRight(a, x, i + 1) ELSE i

\* bisect.insort(a, x): insert x after the elements <= x
Insort(a, x) == ListInsert(a, BisectRight(a, x, 0), x)

\* The ring as one value.
RingState == [ring |-> ringMap, sorted_keys |-> ringSorted]

\* add_node(node), replicas i.. still to add
RECURSIVE RING_add_from(_, _, _)
RING_add_from(r, node, i) ==
    IF i >= Replicas THEN r
    ELSE LET key == RING_hash([node |-> node, i |-> i])
         IN  RING_add_from([ring |-> DictSet(r.ring, key, node),
                            sorted_keys |-> Insort(r.sorted_keys, key)],
                           node, i + 1)

\* add_node(node)
RING_add_node(r, node) == RING_add_from(r, node, 0)

\* del d[key]
DictDel(d, key) == [x \in (DOMAIN d) \ {key} |-> d[x]]

\* remove_node(node): the second loop, over the keys still to remove
RECURSIVE RING_remove_keys(_, _)
RING_remove_keys(r, keys) ==
    IF keys = {} THEN r
    ELSE LET key == CHOOSE k \in keys : TRUE
         IN  RING_remove_keys([ring |-> DictDel(r.ring, key),
                               sorted_keys |-> ListRemove(r.sorted_keys, key)],
                              keys \ {key})

\* remove_node(node)
RING_remove_node(r, node) ==
    RING_remove_keys(r, {key \in DOMAIN r.ring : r.ring[key] = node})

\* get_node(key): None on an empty ring, else the node of the first virtual
\* node past the key's hash, or the KeyError of ring[...]
RING_get_node(r, key) ==
    IF DOMAIN r.ring = {} THEN None
    ELSE LET hash_val == RING_hash(key)
             at == BisectRight(r.sorted_keys, hash_val, 0)
             idx == IF at = Len(r.sorted_keys) THEN 0 ELSE at
         IN  IF r.sorted_keys[idx + 1] \in DOMAIN r.ring
             THEN [node |-> r.ring[r.sorted_keys[idx + 1]]]
             ELSE [error |-> "KeyError"]

\* no ring in hand
RingIdle ==
    /\ ringHash = [l \in Labels |-> 0]
    /\ ringMap = EmptyDict
    /\ ringSorted = <<>>

\* ConsistentHashRing(nodes=None, replicas)
RingInit ==
    /\ ringHash \in {h \in [Labels -> HashSpace] :
                        \A a, b \in Labels : a # b => h[a] # h[b]}
    /\ ringMap = EmptyDict
    /\ ringSorted = <<>>

\* How many times the virtual nodes of a node sit in sorted_keys.
Copies(node) ==
    Cardinality({i \in 1..Len(ringSorted) :
                    ringSorted[i] = RING_hash([node |-> node, i |-> 0])})

SetRing(r) ==
    /\ ringMap' = r.ring
    /\ ringSorted' = r.sorted_keys
    /\ UNCHANGED ringHash
    /\ UNCHANGED <<lsmVars, feVars, tblVars, blkVars, btVars, walVars, tierVars, extVars>>

\* ring.add_node(node)
RingAddNode(node) ==
    /\ Copies(node) < MaxCopies
    /\ SetRing(RING_add_node(RingState, node))

\* ring.remove_node(node) of a node the ring maps
RingRemoveNode(node) ==
    /\ \E key \in DOMAIN ringMap : ringMap[key] = node
    /\ SetRing(RING_remove_node(RingState, node))

RingNext ==
    \/ \E node \in RingNodes : RingAddNode(node)
    \/ \E node \in RingNodes : RingRemoveNode(node)

\* ------------------------------------------------------ DistributedCluster
\* DistributedCluster(nodes): the node lists a cluster is made with, a node
\* named twice included.
ClusterNodeLists ==
    {<<>>} \cup {<<a>> : a \in RingNodes} \cup {<<a, b>> : a, b \in RingNodes}

\* str(doc[key_field]) and str(uuid.uuid4()): the strings a document is
\* routed by.
DocKeys == {l \in Labels : l.node = "n1"}

\* ConsistentHashRing(nodes): add_node for each node of the list
RECURSIVE RING_new(_, _)
RING_new(r, nodes) ==
    IF nodes = <<>> THEN r ELSE RING_new(RING_add_node(r, Head(nodes)), Tail(nodes))

\* What becomes of a POST to /write: a response that passes
\* raise_for_status, one that does not, or no response at all.
WriteAnswers == {"ok", "http_error", "no_connection"}

\* What becomes of a POST to /read: no response, a status other than 200,
\* or a 200 whose "result" is null, an empty list or a list of one document.
ReadAnswers == {"no_connection", "status_500", "null", "empty", "doc"}

\* write with failover: a failed request is repeated on some other node
CLUSTER_write_Failover(r, given, uuid, answer) ==
    LET key == IF given # None THEN given.some ELSE uuid
        node_url == RING_get_node(r, key)
    IN  IF node_url = None
        THEN [doc_key |-> key, sent |-> <<>>, ret |-> [error |-> "RuntimeError"]]
        ELSE IF "error" \in DOMAIN node_url
        THEN [doc_key |-> key, sent |-> <<>>, ret |-> node_url]
        ELSE LET first == [node |-> node_url.node, path |-> "write"]
                 others == {r.ring[h] : h \in DOMAIN r.ring} \ {node_url.node}
             IN  IF answer = "ok" \/ others = {}
                 THEN [doc_key |-> key, sent |-> <<first>>,
                       ret |-> IF answer = "ok" THEN [json |-> "ok"]
                               ELSE [error |-> "RuntimeError"]]
                 ELSE [doc_key |-> key,
                       sent |-> <<first, [node |-> CHOOSE n \in others : TRUE,
                                          path |-> "write"]>>,
                       ret |-> [json |-> "ok"]]

\* write(collection, data, key_field): given is data[key_field] or None
\* when data has no such field, uuid the string uuid4 would give, answer
\* what becomes of the request.  doc_key is data[key_field] afterwards.
CLUSTER_write(r, given, uuid, answer) ==
    LET key == IF given # None THEN given.some ELSE uuid
        node_url == RING_get_node(r, key)
    IN  IF node_url = None
        THEN [doc_key |-> key, sent |-> <<>>, ret |-> [error |-> "RuntimeError"]]
        ELSE IF "error" \in DOMAIN node_url
        THEN [doc_key |-> key, sent |-> <<>>, ret |-> node_url]
        ELSE [doc_key |-> key,
              sent |-> <<[node |-> node_url.node, path |-> "write"]>>,
              ret |-> IF answer = "ok" THEN [json |-> "ok"]
                      ELSE [error |-> "RuntimeError"]]

\* _read_from_node: data.get("result") of a 200, None otherwise
CLUSTER_read_from_node(answer) ==
    CASE answer = "empty" -> Some(<<>>)
      [] answer = "doc" -> Some(<<"doc">>)
      [] OTHER -> None

\* if res: None and the empty list are both false
Truthy(res) == res # None /\ res.some # <<>>

\* read without key_field: the loop over unique_nodes in the order the set
\* is iterated in, from position i on
RECURSIVE CLUSTER_scatter(_, _, _, _)
CLUSTER_scatter(order, answers, i, sent) ==
    IF i > Len(order) THEN [sent |-> sent, ret |-> None]
    ELSE LET res == CLUSTER_read_from_node(answers[order[i]])
             sent1 == Append(sent, [node |-> order[i], path |-> "read",
                                    answer |-> answers[order[i]]])
         IN  IF Truthy(res) THEN [sent |-> sent1, ret |-> res]
             ELSE CLUSTER_scatter(order, answers, i + 1, sent1)

\* read(collection, query, key_field): given is query[key_field] or None.
\* On an empty ring the routed read posts to the URL "None/read", which is
\* no node's: the request raises and None is returned.
CLUSTER_read(r, given, order, answers) ==
    IF given # None
    THEN LET node_url == RING_get_node(r, given.some)
         IN  IF node_url = None THEN [sent |-> <<>>, ret |-> None]
             ELSE IF "error" \in DOMAIN node_url THEN [sent |-> <<>>, ret |-> node_url]
             ELSE [sent |-> <<[node |-> node_url.node, path |-> "read",
                               answer |-> answers[node_url.node]]>>,
                   ret |-> CLUSTER_read_from_node(answers[node_url.node])]
    ELSE CLUSTER_scatter(order, answers, 1, <<>>)

\* The orders a set can be iterated in.
Orders(S) ==
    {q \in [1..Cardinality(S) -> S] : \A i, j \in 1..Cardinality(S) : i # j => q[i] # q[j]}

\* set(self.ring.ring.values())
UniqueNodes == {ringMap[h] : h \in DOMAIN ringMap}

CluIdle ==
    /\ cluCall = [op |-> "none"]
    /\ cluSent = <<>>
    /\ cluRet = None

\* DistributedCluster(nodes)
CluInit ==
    /\ ringHash \in {h \in [Labels -> HashSpace] :
                        \A a, b \in Labels : a # b => h[a] # h[b]}
    /\ \E nodes \in ClusterNodeLists :
       \E r \in {RING_new([ring |-> EmptyDict, sorted_keys |-> <<>>], nodes)} :
           ringMap = r.ring /\ ringSorted = r.sorted_keys
    /\ CluIdle

\* cluster.write(collection, data) with or without data[key_field]
ClusterWrite(given, uuid, answer) ==
    /\ cluCall.op = "none"
    /\ \E w \in {CLUSTER_write(RingState, given, uuid, answer)} :
        /\ cluCall' = [op |-> "write", given |-> given, doc_key |-> w.doc_key,
                       answer |-> answer]
        /\ cluSent' = w.sent
        /\ cluRet' = w.ret
    /\ UNCHANGED <<lsmVars, feVars, tblVars, blkVars, btVars, walVars, ringVars,
                   vecVars, colVars, opnVars, lsmCall, extVars>>

\* cluster.read(collection, query) with or without query[key_field]
ClusterRead(given, order, answers) ==
    /\ cluCall.op = "none"
    /\ \E rd \in {CLUSTER_read(RingState, given, order, answers)} :
        /\ cluCall' = [op |-> "read", given |-> given]
        /\ cluSent' = rd.sent
        /\ cluRet' = rd.ret
    /\ UNCHANGED <<lsmVars, feVars, tblVars, blkVars, btVars, walVars, ringVars,
                   vecVars, colVars, opnVars, lsmCall, extVars>>

\* the caller has the result: the next call can be made
ClusterReturn ==
    /\ cluCall.op # "none"
    /\ cluCall' = [op |-> "none"]
    /\ cluSent' = <<>>
    /\ cluRet' = None
    /\ UNCHANGED <<lsmVars, feVars, tblVars, blkVars, btVars, walVars, ringVars,
                   vecVars, colVars, opnVars, lsmCall, extVars>>

CluNext ==
    \/ \E given \in {Some(k) : k \in DocKeys} \cup {None} :
       \E uuid \in DocKeys : \E answer \in WriteAnswers :
           ClusterWrite(given, uuid, answer)
    \/ \E given \in {Some(k) : k \in DocKeys} \cup {None} :
       \E order \in Orders(UniqueNodes) :
       \E answers \in [UniqueNodes -> ReadAnswers] :
           ClusterRead(given, order, answers)
    \/ ClusterReturn

\* ------------------------------------------------------------- VectorIndex
\* The components of the vectors and the vectors added and searched for:
\* every length from 0 to MaxDim.
Comps == {-1, 0, 1}

Vectors == UNION {[1..n -> Comps] : n \in 0..MaxDim}

\* The VectorIndex as one value.
VecState == [dimension |-> vecDim, ids |-> vecIds, vectors |-> vecRows, disk |-> vecDisk]

\* np.dot of two vectors of one length
RECURSIVE Dot(_, _)
Dot(a, b) == IF a = <<>> THEN 0 ELSE Head(a) * Head(b) + Dot(Tail(a), Tail(b))

\* scores[idx] for a query q with a norm above 0: the cosine
\* num / sqrt(vsq * qsq), vsq being 1 for a row of norm 0 (norms[norms == 0]
\* = 1).  The components are small integers: the float32 values computed for
\* two rows are equal or ordered exactly as these cosines are.
VEC_score(row, q) ==
    [num |-> Dot(row, q),
     vsq |-> IF Dot(row, row) = 0 THEN 1 ELSE Dot(row, row),
     qsq |-> Dot(q, q)]

\* a < b for two scores of one query
ScoreLess(a, b) ==
    LET sq(s) == (IF s.num < 0 THEN -1 ELSE 1) * s.num * s.num
    IN  sq(a) * b.vsq < sq(b) * a.vsq

\* np.argsort(scores): the orders of the row indices (1-based here) in which
\* the scores do not decrease.  The default sort kind is not stable: rows of
\* equal score come in any order.
VEC_argsort(scores) ==
    {p \in Orders(1..Len(scores)) :
        \A i \in 1..(Len(scores) - 1) : ~ScoreLess(scores[p[i + 1]], scores[p[i]])}

\* a[-k:] of a Python list: the last k elements, and for k = 0 the whole of it
LastK(a, k) ==
    IF k = 0 \/ k >= Len(a) THEN a ELSE SubSeq(a, Len(a) - k + 1, Len(a))

\* a[::-1]
Reversed(a) == [i \in 1..Len(a) |-> a[Len(a) + 1 - i]]

\* search(query_vector, k), perm being what argsort gave: the list of
\* (id, score) pairs, each with the row it came from, or the ValueError of
\* np.dot when the query has another length than the rows
VEC_search(v, q, k, perm) ==
    IF v.vectors = <<>> THEN [list |-> <<>>]
    ELSE IF Dot(q, q) = 0 THEN [list |-> <<>>]
    ELSE IF Len(q) # Len(v.vectors[1]) THEN [error |-> "ValueError"]
    ELSE LET scores == [i \in 1..Len(v.vectors) |-> VEC_score(v.vectors[i], q)]
             top_k_indices == Reversed(LastK(perm, k))
         IN  [list |-> [j \in 1..Len(top_k_indices) |->
                           [id |-> v.ids[top_k_indices[j]],
                            score |-> scores[top_k_indices[j]],
                            row |-> top_k_indices[j]]]]

\* add(vector, record_id): the first row is taken as it is, a later one is
\* stacked under the rows held (np.vstack raises when its length differs);
\* then the id is appended and both arrays are saved
VEC_add(v, vector, record_id) ==
    IF v.vectors # <<>> /\ Len(vector) # Len(v.vectors[1])
    THEN [st |-> v, ret |-> [error |-> "ValueError"]]
    ELSE LET ids == Append(v.ids, record_id)
             vectors == Append(v.vectors, vector)
         IN  [st |-> [v EXCEPT !.ids = ids, !.vectors = vectors,
                               !.disk = [ids |-> ids, vectors |-> vectors]],
              ret |-> [id |-> record_id]]

\* VectorIndex(name, dimension, path) on a new path
VecInit ==
    /\ vecDim \in 1..MaxDim
    /\ vecIds = <<>>
    /\ vecRows = <<>>
    /\ vecDisk = None
    /\ vecOut = None

SetVec(v) ==
    /\ vecIds' = v.ids
    /\ vecRows' = v.vectors
    /\ vecDisk' = v.disk
    /\ UNCHANGED vecDim
    /\ UNCHANGED <<lsmVars, feVars, tblVars, blkVars, btVars, walVars, ringVars,
                   cluVars, colVars, opnVars, lsmCall, extVars>>

\* index.add(vector) with an id of the caller (0) or without: uuid4 gives
\* an id no row has yet
VecAdd(vector, given) ==
    /\ vecOut = None
    /\ Len(vecRows) < MaxRows
    /\ \E a \in {VEC_add(VecState, vector,
                         IF given THEN 0 ELSE Len(vecIds) + 1)} :
        /\ SetVec(a.st)
        /\ vecOut' = [op |-> "add", vector |-> vector, n0 |-> Len(vecRows),
                      ret |-> a.ret]

\* index.search(q, k)
VecSearch(q, k) ==
    /\ vecOut = None
    /\ \E perm \in VEC_argsort([i \in 1..Len(vecRows) |->
                                   IF Len(q) = Len(vecRows[i]) /\ Dot(q, q) # 0
                                   THEN VEC_score(vecRows[i], q)
                                   ELSE [num |-> 0, vsq |-> 1, qsq |-> 1]]) :
        /\ vecOut' = [op |-> "search", q |-> q, k |-> k,
                      ret |-> VEC_search(VecState, q, k, perm)]
        /\ SetVec(VecState)

\* the caller has the result: the next call can be made
VecReturn ==
    /\ vecOut # None
    /\ vecOut' = None
    /\ SetVec(VecState)

VecNext ==
    \/ \E vector \in Vectors : \E given \in BOOLEAN : VecAdd(vector, given)
    \/ \E q \in Vectors : \E k \in 0..MaxK : VecSearch(q, k)
    \/ VecReturn

\* ----------------------------------------------------------- ColumnarTable
\* The schema of the table, the values of its columns, and the batches
\* insert_many is given: every record has every column of the schema.
ColSchema == {"qty", "amount"}

ColValues == {1, 2}

ColBatches == UNION {[1..n -> [ColSchema -> ColValues]] : n \in 0..MaxBatch}

\* The columns and aggregations asked for: one column the table does not
\* have, one aggregation that does not exist.
ColAsked == ColSchema \cup {"price"}

ColFuncs == {"sum", "avg", "mean", "max", "min", "count", "median"}

\* The ColumnarTable as one value.
ColState == [columns |-> colColumns, row_count |-> colRowCount, disk |-> colDisk]

\* insert_many(records): each column is replaced by the new values when it
\* is empty and extended by them otherwise, row_count grows, all is saved
COL_insert_many(t, records) ==
    LET cols_data == [col \in ColSchema |-> [i \in 1..Len(records) |-> records[i][col]]]
        columns == [col \in ColSchema |->
                       IF Len(t.columns[col]) = 0 THEN cols_data[col]
                       ELSE t.columns[col] \o cols_data[col]]
    IN  [columns |-> columns, row_count |-> t.row_count + Len(records),
         disk |-> columns]

\* np.max / np.min of a non-empty array
RECURSIVE ArrayMax(_)
ArrayMax(data) ==
    IF Len(data) = 1 THEN data[1]
    ELSE LET m == ArrayMax(Tail(data)) IN IF Head(data) > m THEN Head(data) ELSE m

RECURSIVE ArrayMin(_)
ArrayMin(data) ==
    IF Len(data) = 1 THEN data[1]
    ELSE LET m == ArrayMin(Tail(data)) IN IF Head(data) < m THEN Head(data) ELSE m

\* aggregate(column, func): the mean is the fraction num / den
COL_aggregate(t, column, func) ==
    IF column \notin DOMAIN t.columns THEN [error |-> "ValueError"]
    ELSE LET data == t.columns[column]
         IN  IF Len(data) = 0 THEN [value |-> 0]
             ELSE CASE func = "sum" -> [value |-> Sum(data)]
                    [] func \in {"avg", "mean"} -> [value |-> [num |-> Sum(data), den |-> Len(data)]]
                    [] func = "max" -> [value |-> ArrayMax(data)]
                    [] func = "min" -> [value |-> ArrayMin(data)]
                    [] func = "count" -> [value |-> Len(data)]
                    [] OTHER -> [error |-> "ValueError"]

\* ColumnarTable(name, schema, path) on a new path: every column empty
ColInit ==
    /\ colColumns = [col \in ColSchema |-> <<>>]
    /\ colRowCount = 0
    /\ colDisk = EmptyDict
    /\ colOut = None

\* table.insert_many(records)
ColInsertMany(records) ==
    /\ colRowCount + Len(records) <= MaxColRows
    /\ \E t \in {COL_insert_many(ColState, records)} :
        /\ colColumns' = t.columns
        /\ colRowCount' = t.row_count
        /\ colDisk' = t.disk
    /\ colOut' = [op |-> "insert_many", n |-> Len(records)]
    /\ UNCHANGED <<lsmVars, feVars, tblVars, blkVars, btVars, walVars, ringVars,
                   cluVars, vecVars, opnVars, lsmCall, extVars>>

\* table.aggregate(column, func)
ColAggregate(column, func) ==
    /\ colOut' = [op |-> "aggregate", column |-> column, func |-> func,
                  ret |-> COL_aggregate(ColState, column, func)]
    /\ UNCHANGED <<colColumns, colRowCount, colDisk>>
    /\ UNCHANGED <<lsmVars, feVars, tblVars, blkVars, btVars, walVars, ringVars,
                   cluVars, vecVars, opnVars, lsmCall, extVars>>

ColNext ==
    \/ \E records \in ColBatches : ColInsertMany(records)
    \/ \E column \in ColAsked : \E func \in ColFuncs : ColAggregate(column, func)

\* ------------------------------------------- FileStorageEngine: open, close
\* The container directory: the tables of metadata['tables'], each named by
\* one letter ("t", "u").
TableNames == {116, 117}

\* __init__: metadata with no table, collection or index
EmptyMetadata == {}

\* json.dumps(self.metadata).encode('utf-8'), cut down to the directory: the
\* names in key order between braces
META_dumps(dir) ==
    <<123>> \o (IF 116 \in dir THEN <<116>> ELSE <<>>)
            \o (IF 117 \in dir THEN <<117>> ELSE <<>>) \o <<125>>

\* json.loads(data.decode('utf-8')): the directory, or the error raised for
\* bytes that are no such text
META_loads(b) ==
    IF Len(b) < 2 \/ b[1] # 123 \/ b[Len(b)] # 125
    THEN [ok |-> FALSE]
    ELSE LET inner == SubSeq(b, 2, Len(b) - 1)
         IN  IF \A i \in 1..Len(inner) : inner[i] \in TableNames
             THEN [ok |-> TRUE, dir |-> {inner[i] : i \in 1..Len(inner)}]
             ELSE [ok |-> FALSE]

\* FileManager.write_block(HEADER_SIZE, block) on the file from that offset
\* on: the block overwrites what was there, the bytes behind it stay
FM_write_block(file, block) == block \o SubSeq(file, Len(block) + 1, Len(file))

\* _write_metadata
FE_write_metadata(file, metadata) ==
    FM_write_block(file, FE_create_block(META, META_dumps(metadata)))

\* _load_metadata on an engine whose metadata is `metadata`: read_block
\* gives the file from the META offset on (it is shorter than 50 KB); what
\* _parse_block or json.loads raises is caught and the metadata emptied; a
\* block of another type leaves the metadata as it is
FE_load_metadata(file, metadata) ==
    LET parsed == FE_parse_block(file)
    IN  IF ~parsed.ok THEN EmptyMetadata
        ELSE IF parsed.type = META
        THEN LET loaded == META_loads(parsed.data)
             IN  IF loaded.ok THEN loaded.dir ELSE EmptyMetadata
        ELSE metadata

\* FileStorageEngine(path).open(): the header is intact, the metadata is
\* loaded into a new engine; nothing is raised
FE_open(file) ==
    [ok |-> TRUE, metadata |-> FE_load_metadata(file, EmptyMetadata)]

\* initialize() wrote the empty directory; tables were then created
OpnInit ==
    /\ opnPc = "made"
    /\ opnFile = FE_write_metadata(<<>>, EmptyMetadata)
    /\ opnMeta \in SUBSET TableNames
    /\ opnHit = None
    /\ opnOut = None

\* engine.close(): the metadata is written at its fixed offset
OpnClose ==
    /\ opnPc \in {"made", "opened"}
    /\ opnPc' = "closed"
    /\ opnFile' = FE_write_metadata(opnFile, opnMeta)
    /\ opnHit' = None
    /\ opnOut' = None
    /\ UNCHANGED opnMeta
    /\ UNCHANGED <<lsmVars, feVars, tblVars, blkVars, btVars, walVars, ringVars,
                   cluVars, vecVars, colVars, lsmCall, extVars>>

\* the closed file is damaged: ...
SetDamaged(file, hit) ==
    /\ opnPc = "closed"
    /\ opnPc' = "damaged"
    /\ opnFile' = file
    /\ opnHit' = hit
    /\ UNCHANGED <<opnMeta, opnOut>>
    /\ UNCHANGED <<lsmVars, feVars, tblVars, blkVars, btVars, walVars, ringVars,
                   cluVars, vecVars, colVars, lsmCall, extVars>>

\* ... one byte behind the type tag gets another value (the size and the
\* checksum stay below 2^31: their top bytes get 0 or 1 only),
OpnPerturb(i, b) ==
    /\ i <= Len(opnFile)
    /\ i \in {8, 12} => b < 128
    /\ opnFile[i] # b
    /\ SetDamaged([opnFile EXCEPT ![i] = b], [kind |-> "byte", at |-> i])

\* ... the type tag becomes that of another block type,
OpnRetag(type) ==
    /\ Len(opnFile) >= 4
    /\ SetDamaged(type \o SubSeq(opnFile, 5, Len(opnFile)), [kind |-> "type"])

\* ... the file ends early,
OpnTruncate(n) ==
    /\ n < Len(opnFile)
    /\ SetDamaged(SubSeq(opnFile, 1, n), [kind |-> "cut", at |-> n])

\* ... or the payload bytes are in another order (their sum is the same)
OpnShuffle ==
    /\ Len(opnFile) >= BLOCK_HEADER_SIZE
    /\ SetDamaged(SubSeq(opnFile, 1, BLOCK_HEADER_SIZE)
                      \o Reversed(SubSeq(opnFile, BLOCK_HEADER_SIZE + 1, Len(opnFile))),
                  [kind |-> "order"])

\* FileStorageEngine(path).open() by a new engine
OpnOpen ==
    /\ opnPc \in {"closed", "damaged"}
    /\ opnPc' = "opened"
    /\ \E o \in {FE_open(opnFile)} :
        /\ opnOut' = o
        /\ opnMeta' = o.metadata
    /\ UNCHANGED <<opnFile, opnHit>>
    /\ UNCHANGED <<lsmVars, feVars, tblVars, blkVars, btVars, walVars, ringVars,
                   cluVars, vecVars, colVars, lsmCall, extVars>>

OpnNext ==
    \/ OpnClose
    \/ \E i \in 5..(BLOCK_HEADER_SIZE + 4) : \E b \in Bytes : OpnPerturb(i, b)
    \/ \E type \in {DATA, TLOG} : OpnRetag(type)
    \/ \E n \in 0..(BLOCK_HEADER_SIZE + 4) : OpnTruncate(n)
    \/ OpnShuffle
    \/ OpnOpen

\* ---------------------------------------- LSM engine: create_index, rollback
\* create_index(container_name, order): the body is `pass`
LSM_create_index(s, c, field) == [st |-> s, ret |-> None]

\* rollback(): the body is `pass`
LSM_rollback(s) == [st |-> s, ret |-> None]

\* engine.create_index(name, 'id')
LsmCreateIndex ==
    /\ lsmStatus = "open"
    /\ lsmCall' = [op |-> "create_index", writes |-> writes,
                   ret |-> LSM_create_index(LsmState, Users, "id").ret]
    /\ SetLsm(LSM_create_index(LsmState, Users, "id").st)
    /\ UNCHANGED <<lsmStatus, lsmRecovered, capacity, lsmRegistered>>
    /\ UNCHANGED <<feVars, tblVars, blkVars, btVars, walVars, ringVars,
                   cluVars, vecVars, colVars, opnVars, extVars>>

\* engine.rollback()
LsmRollback ==
    /\ lsmStatus = "open"
    /\ lsmCall' = [op |-> "rollback", writes |-> writes,
                   ret |-> LSM_rollback(LsmState).ret]
    /\ SetLsm(LSM_rollback(LsmState).st)
    /\ UNCHANGED <<lsmStatus, lsmRecovered, capacity, lsmRegistered>>
    /\ UNCHANGED <<feVars, tblVars, blkVars, btVars, walVars, ringVars,
                   cluVars, vecVars, colVars, opnVars, extVars>>

LsmCallsNext ==
    \/ LsmNext
    \/ LsmCreateIndex
    \/ LsmRollback

\* ------------------------------------- LSM engine: a put the WAL cannot take
\* WAL.append of a value msgpack.packb cannot serialise: packb raises
\* before anything is written to the file.
WAL_append_raises(s, key) == s

\* MemTable.put of such a value: the exception leaves put at its first
\* line, data and size are not reached.
MemTable_put_raises(s, key) == WAL_append_raises(s, key)

\* insert_record of a record that cannot be serialised: put raises, the
\* offsets and the flush test are not reached.
LSM_insert_record_raises(s, c, id) ==
    [st |-> MemTable_put_raises(s, Key(c, id)), ret |-> [error |-> "TypeError"]]

\* engine.insert_record(name, {'id': id, 'name': <a set>})
LsmInsertUnpackable(id) ==
    /\ lsmStatus = "open"
    /\ lsmCall' = [op |-> "insert_record", writes |-> writes,
                   ret |-> LSM_insert_record_raises(LsmState, Users, id).ret]
    /\ SetLsm(LSM_insert_record_raises(LsmState, Users, id).st)
    /\ UNCHANGED <<lsmStatus, lsmRecovered, capacity, lsmRegistered>>
    /\ UNCHANGED <<feVars, tblVars, blkVars, btVars, walVars, ringVars,
                   cluVars, vecVars, colVars, opnVars, extVars>>

LsmWalNext ==
    \/ LsmCrashNext
    \/ \E id \in Ids : LsmInsertUnpackable(id)

\* ----------------------------- BTreeIndex: keys of mixed types, and delete
\* the None that _insert_non_full appends to a leaf before it compares
NoneKey == -1

\* a str given as the value of an indexed field whose other values are ints
StrKey == -2

\* a < b, a > b of Python are defined (no TypeError): int with int, str with
\* str; None compares with nothing
Comparable(a, b) == (a >= 0 /\ b >= 0) \/ (a = StrKey /\ b = StrKey)

\* while i >= 0 and key < node.keys[i]: i -= 1, where the comparison may raise
RECURSIVE BT_scan_down_typed(_, _, _)
BT_scan_down_typed(keys, key, i) ==
    IF i < 0 THEN [i |-> i, raised |-> FALSE]
    ELSE IF ~Comparable(key, keys[i + 1]) THEN [i |-> i, raised |-> TRUE]
    ELSE IF key < keys[i + 1] THEN BT_scan_down_typed(keys, key, i - 1)
    ELSE [i |-> i, raised |-> FALSE]

\* the list a leaf is left with when the shifting loop raises at index i:
\* the appended None when nothing was shifted, else the entry last copied
\* stands twice
LeafShifted(l, i) ==
    IF i = Len(l) - 1 THEN Append(l, NoneKey)
    ELSE SubSeq(l, 1, i + 2) \o SubSeq(l, i + 2, Len(l))

\* _insert_non_full with keys of any type: the node it leaves, and whether
\* TypeError was raised
RECURSIVE BT_insert_non_full_typed(_, _, _, _)
BT_insert_non_full_typed(node, key, value, order) ==
    LET s == BT_scan_down_typed(node.keys, key, Len(node.keys) - 1)
    IN  IF node.is_leaf
        THEN IF s.raised
             THEN [node |-> [node EXCEPT !.keys = LeafShifted(@, s.i),
                                         !.values = LeafShifted(@, s.i)],
                   raised |-> TRUE]
             ELSE [node |-> [node EXCEPT !.keys = ListInsert(@, s.i + 1, key),
                                         !.values = ListInsert(@, s.i + 1, value)],
                   raised |-> FALSE]
        ELSE IF s.raised THEN [node |-> node, raised |-> TRUE]
        ELSE LET j == s.i + 1
                 full == Len(node.children[j + 1].keys) >= 2 * order - 1
                 n1 == IF full THEN BT_split_child(node, j, order) ELSE node
             IN  IF full /\ ~Comparable(key, n1.keys[j + 1])
                 THEN [node |-> n1, raised |-> TRUE]
                 ELSE LET k == IF full /\ key > n1.keys[j + 1] THEN j + 1 ELSE j
                          r == BT_insert_non_full_typed(n1.children[k + 1], key,
                                                        value, order)
                      IN  [node |-> [n1 EXCEPT !.children[k + 1] = r.node],
                           raised |-> r.raised]

\* insert(key, value) with keys of any type: _size grows when nothing raised
BT_insert_typed(index, key, value) ==
    LET root == IF Len(index.root.keys) >= 2 * index.order - 1
                THEN BT_split_child([keys |-> <<>>, values |-> <<>>,
                                     children |-> <<index.root>>, is_leaf |-> FALSE],
                                    0, index.order)
                ELSE index.root
        r == BT_insert_non_full_typed(root, key, value, index.order)
    IN  [st |-> [index EXCEPT !.root = r.node,
                              !.size = IF r.raised THEN @ ELSE @ + 1],
         raised |-> r.raised]

\* while i < len(node.keys) and key > node.keys[i]: i += 1, where the
\* comparison may raise
RECURSIVE BT_scan_up_typed(_, _, _)
BT_scan_up_typed(keys, key, i) ==
    IF i >= Len(keys) THEN [i |-> i, raised |-> FALSE]
    ELSE IF ~Comparable(key, keys[i + 1]) THEN [i |-> i, raised |-> TRUE]
    ELSE IF key > keys[i + 1] THEN BT_scan_up_typed(keys, key, i + 1)
    ELSE [i |-> i, raised |-> FALSE]

\* search(key) with keys of any type (== never raises)
RECURSIVE BT_search_node_typed(_, _)
BT_search_node_typed(node, key) ==
    LET s == BT_scan_up_typed(node.keys, key, 0)
    IN  IF s.raised THEN [raised |-> TRUE, ret |-> None]
        ELSE IF s.i < Len(node.keys) /\ key = node.keys[s.i + 1]
        THEN [raised |-> FALSE, ret |-> Some(node.values[s.i + 1])]
        ELSE IF node.is_leaf THEN [raised |-> FALSE, ret |-> None]
        ELSE BT_search_node_typed(node.children[s.i + 1], key)

\* node.keys.index(key), 0-based, key in the list
RECURSIVE ListIndex(_, _, _)
ListIndex(l, x, i) == IF l[i + 1] = x THEN i ELSE ListIndex(l, x, i + 1)

\* del l[i], i 0-based
ListDel(l, i) == SubSeq(l, 1, i) \o SubSeq(l, i + 2, Len(l))

\* _delete_from_node: the node it leaves, its result, and whether TypeError
\* was raised (the handler takes ValueError only)
RECURSIVE BT_delete_from_node(_, _)
BT_delete_from_node(node, key) ==
    IF InList(node.keys, key)
    THEN LET idx == ListIndex(node.keys, key, 0)
         IN  [node |-> [node EXCEPT !.keys = ListDel(@, idx),
                                    !.values = ListDel(@, idx)],
              ret |-> TRUE, raised |-> FALSE]
    ELSE IF ~node.is_leaf
    THEN LET s == BT_scan_up_typed(node.keys, key, 0)
         IN  IF s.raised THEN [node |-> node, ret |-> FALSE, raised |-> TRUE]
             ELSE LET r == BT_delete_from_node(node.children[s.i + 1], key)
                  IN  [node |-> [node EXCEPT !.children[s.i + 1] = r.node],
                       ret |-> r.ret, raised |-> r.raised]
    ELSE [node |-> node, ret |-> FALSE, raised |-> FALSE]

\* delete(key): _size goes down by one when the key was taken out
BT_delete(index, key) ==
    LET r == BT_delete_from_node(index.root, key)
    IN  [st |-> [index EXCEPT !.root = r.node,
                              !.size = IF r.ret THEN @ - 1 ELSE @],
         ret |-> r.ret, raised |-> r.raised]

\* size()
BT_size(index) == index.size

\* ---------------------------- FileStorageEngine: close and open of the file
\* FileManager.HEADER_SIZE: the fixed offset of the META block
HEADER_SIZE == 64

\* json.dumps(self.metadata) of a new engine:
\* {"tables": {}, "collections": {}, "indexes": {}}
JSON_dumps_empty_metadata ==
    <<123, 34, 116, 97, 98, 108, 101, 115, 34, 58, 32, 123, 125, 44, 32, 34, 99,
      111, 108, 108, 101, 99, 116, 105, 111, 110, 115, 34, 58, 32, 123, 125, 44,
      32, 34, 105, 110, 100, 101, 120, 101, 115, 34, 58, 32, 123, 125, 125>>

\* ", ".join(str(o) for o in offsets)
RECURSIVE JSON_join_offsets(_)
JSON_join_offsets(offsets) ==
    IF offsets = <<>> THEN <<>>
    ELSE Str(Head(offsets))
             \o (IF Len(offsets) = 1 THEN <<>>
                 ELSE <<44, 32>> \o JSON_join_offsets(Tail(offsets)))

\* {"tables": {"u": {"offsets": [
MetadataHead ==
    <<123, 34, 116, 97, 98, 108, 101, 115, 34, 58, 32, 123, 34, 117, 34, 58, 32,
      123, 34, 111, 102, 102, 115, 101, 116, 115, 34, 58, 32, 91>>

\* json.dumps(self.metadata) with the table "u" and its index on 'id' (the
\* schema entry of the table is left out):
\* {"tables": {"u": {"offsets": [...]}}, "collections": {},
\*  "indexes": {"u": {"id": {"order": 4}}}}
JSON_dumps_metadata(offsets) ==
    MetadataHead \o JSON_join_offsets(offsets)
        \o <<93, 125, 125, 44, 32, 34, 99, 111, 108, 108, 101, 99, 116, 105, 111,
             110, 115, 34, 58, 32, 123, 125, 44, 32, 34, 105, 110, 100, 101, 120,
             101, 115, 34, 58, 32, 123, 34, 117, 34, 58, 32, 123, 34, 105, 100, 34,
             58, 32, 123, 34, 111, 114, 100, 101, 114, 34, 58, 32, 52, 125, 125,
             125, 125>>

\* the offsets of json.loads of such text, from position i on
RECURSIVE JSON_loads_offsets(_, _)
JSON_loads_offsets(b, i) ==
    IF b[i] = 93 THEN <<>>
    ELSE LET e == DigitsEnd(b, i)
         IN  <<ParseInt(b, i, e)>> \o JSON_loads_offsets(b, IF b[e] = 44 THEN e + 2 ELSE e)

\* json.loads(data)['tables'].get('u', {}).get('offsets', [])
JSON_loads_metadata(b) ==
    IF Len(b) > Len(MetadataHead) /\ SubSeq(b, 1, Len(MetadataHead)) = MetadataHead
    THEN JSON_loads_offsets(b, Len(MetadataHead) + 1)
    ELSE <<>>

\* close(): _write_metadata writes the META block at HEADER_SIZE, over what
\* lies there; meta is the file from HEADER_SIZE up to the first appended
\* block, f.bytes the file from there on
FE_close(f, meta) ==
    LET block == FE_create_block(META, JSON_dumps_metadata(f.offsets))
        written == FM_write_block(meta \o f.bytes, block)
        n == FileStart - HEADER_SIZE
    IN  [st |-> [f EXCEPT !.bytes = SubSeq(written, n + 1, Len(written))],
         meta |-> SubSeq(written, 1, n)]

\* _load_metadata of a new engine: the offset list of the table, empty
\* when the block does not parse or is no META block
FE_load_offsets(file) ==
    LET parsed == FE_parse_block(file)
    IN  IF parsed.ok /\ parsed.type = META
        THEN JSON_loads_metadata(parsed.data)
        ELSE <<>>

\* _populate_index from position i of the offset list on: each record that
\* can be read goes into the index by its id (the reads fill the cache)
RECURSIVE FE_populate_index(_, _, _)
FE_populate_index(f, c, i) ==
    IF i > Len(f.offsets) THEN f
    ELSE LET r == FE_read_record(f, c, f.offsets[i])
         IN  FE_populate_index(
                 IF r.ok THEN [r.st EXCEPT !.index = BT_insert(@, r.rec.id, f.offsets[i])]
                 ELSE r.st,
                 c, i + 1)

\* open() by a new engine on the file: _load_metadata, _rebuild_indexes
FE_reopen(f, meta) ==
    FE_populate_index(
        [f EXCEPT !.cache = <<>>, !.tlog = <<>>, !.index = BTreeIndex(BTREE_ORDER),
                  !.offsets = FE_load_offsets(meta \o f.bytes)],
        Users, 1)

\* ------------------------------------------------ components not in use
VecIdle ==
    /\ vecDim = 0
    /\ vecIds = <<>>
    /\ vecRows = <<>>
    /\ vecDisk = None
    /\ vecOut = None

ColIdle ==
    /\ colColumns = EmptyDict
    /\ colRowCount = 0
    /\ colDisk = EmptyDict
    /\ colOut = None

OpnIdle ==
    /\ opnPc = "idle"
    /\ opnFile = <<>>
    /\ opnMeta = None
    /\ opnHit = None
    /\ opnOut = None

LsmCallIdle == lsmCall = None

PerIdle ==
    /\ perPc = "open"
    /\ perMeta = <<>>
    /\ perSaved = None

\* no call on the index yet
BxIdle ==
    /\ bxRet = None
    /\ bxCalls = 0

\* CacheManager(capacity): no call yet
LruIdle ==
    /\ lruHits = 0
    /\ lruMisses = 0
    /\ lruGets = 0
    /\ lruTouch = <<>>
    /\ lruRet = None

ExtIdle == PerIdle /\ BxIdle /\ LruIdle

TierIdle == CluIdle /\ VecIdle /\ ColIdle /\ OpnIdle /\ LsmCallIdle /\ ExtIdle

\* The components that are not part of the row tier, none in use.
LibIdle == BtIdle /\ WalInit /\ RingIdle /\ TierIdle

\* ------------------------------------------------------- adapter: actions

\* FileStorageEngine(db_path, cache_size).initialize(), the table created
FeInit ==
    /\ fmBytes = <<>>
    /\ cache = <<>>
    /\ idIndex = BTreeIndex(BTREE_ORDER)
    /\ feOffsets = <<>>
    /\ tlog = <<>>
    /\ inserted = EmptyDict

\* Table(name, schema, storage_engine), no call made yet
TblIdle ==
    /\ autoInc = 0
    /\ pc = "idle"
    /\ loopI = 0
    /\ loopCount = 0
    /\ loopArgs = None
    /\ loopHist = None
    /\ lastRet = [op |-> "none"]
    /\ rows = [i \in Ids |-> [kind |-> "none"]]

\* A table on either engine.
TblInit ==
    /\ LibIdle
    /\ LsmInit
    /\ FeInit
    /\ TblIdle
    /\ BlkIdle
    /\ engine \in {"file", "lsm"}
    /\ cacheSize \in 1..MaxCache
    /\ engine = "file" => capacity = 1
    /\ engine = "lsm" => cacheSize = 1

SetDb(db) ==
    /\ SetLsm(db.s)
    /\ fmBytes' = db.f.bytes
    /\ cache' = db.f.cache
    /\ idIndex' = db.f.index
    /\ feOffsets' = db.f.offsets
    /\ tlog' = db.f.tlog
    /\ inserted' = db.f.ins
    /\ UNCHANGED <<lsmStatus, lsmRecovered, capacity, lsmRegistered, cacheSize, engine>>
    /\ UNCHANGED <<blkVars, libVars>>

\* Bounded exploration: the blocks appended and the WAL appends made.
InBounds(db) == Cardinality(DOMAIN db.f.ins) <= MaxBlocks /\ db.s.n <= MaxWrites

\* The exact-match conditions and the updates the calls are made with; the
\* inserts are made without an id.
Wheres == {[name |-> 65], [age |-> 30], [id |-> 1]}
Updates == {[age |-> 31], [age |-> BadAge]}

\* The records the offset list leads to, in list order.
RECURSIVE HeldFrom(_, _, _)
HeldFrom(db, c, i) ==
    IF i > Len(Eng_offsets(db)) THEN <<>>
    ELSE LET r == Eng_read_record(db, c, Eng_offsets(db)[i])
         IN  (IF r.ok THEN <<r.rec>> ELSE <<>>) \o HeldFrom(db, c, i + 1)

Held(db, c) == HeldFrom(db, c, 1)

\* the records among them that match a condition
Matching(db, c, where) == QP_filter(Held(db, c), where)

SeqToSet(q) == {q[i] : i \in 1..Len(q)}

\* Table.insert({name, age}): validated, given the next id, stored
TableInsert(name, age) ==
    /\ pc = "idle"
    /\ autoInc < MaxId
    /\ Table_validate_record([name |-> name, age |-> age])
    /\ \E record \in {[name |-> name, age |-> age, id |-> autoInc + 1]} :
       \E db \in {Eng_insert_record(DbState, Users, record)} :
        /\ InBounds(db)
        /\ SetDb(db)
        /\ autoInc' = autoInc + 1
        /\ rows' = [rows EXCEPT ![record.id] = [kind |-> "live", rec |-> record]]
        /\ lastRet' = [op |-> "insert", ret |-> record.id]
        /\ UNCHANGED <<pc, loopI, loopCount, loopArgs, loopHist>>

\* Table.select(where)
TableSelect(where) ==
    /\ pc = "idle"
    /\ \E r \in {Table_select(DbState, Users, where)} :
        /\ SetDb(r.db)
        /\ lastRet' = [op |-> "select", ret |-> r.recs]
        /\ UNCHANGED <<autoInc, pc, loopI, loopCount, loopArgs, loopHist, rows>>

\* Table.select(): scan_table
TableScan ==
    /\ pc = "idle"
    /\ \E r \in {Eng_scan_table(DbState, Users)} :
        /\ SetDb(r.db)
        /\ lastRet' = [op |-> "select", ret |-> r.recs]
        /\ UNCHANGED <<autoInc, pc, loopI, loopCount, loopArgs, loopHist, rows>>

\* Table.delete(where)
TableDelete(where) ==
    /\ pc = "idle"
    /\ \E db \in {DbState} :
       \E r \in {Table_delete(db, Users, where)} :
       \E gone \in {SeqToSet(Matching(db, Users, where))} :
        /\ InBounds(r.db)
        /\ SetDb(r.db)
        /\ rows' = [i \in Ids |-> IF \E m \in gone : m.id = i
                                  THEN [kind |-> "deleted"] ELSE rows[i]]
        /\ lastRet' = [op |-> "delete", ret |-> r.ret, where |-> where,
                       matched |-> Len(Matching(db, Users, where)),
                       count0 |-> Table_count(db),
                       keep |-> SeqToSet(Held(db, Users)) \ gone]
        /\ UNCHANGED <<autoInc, pc, loopI, loopCount, loopArgs, loopHist>>

\* Table.update(where, updates) is entered: count = 0, the loop starts
TableUpdateBegin(where, updates) ==
    /\ pc = "idle"
    /\ pc' = "update"
    /\ loopI' = 0
    /\ loopCount' = 0
    /\ loopArgs' = [where |-> where, updates |-> updates]
    /\ loopHist' = [len0 |-> Table_count(DbState),
                    matched |-> Len(Matching(DbState, Users, where)),
                    old |-> {}, new |-> {}]
    /\ lastRet' = [op |-> "none"]
    /\ UNCHANGED <<lsmVars, feVars, blkVars, libVars, engine, autoInc, rows>>

\* one pass of the loop: the iterator still finds an element at index i
TableUpdateStep ==
    /\ pc = "update"
    /\ loopI < Len(Eng_offsets(DbState))
    /\ \E b \in {Table_update_body(DbState, Users, loopI, loopArgs.where,
                                    loopArgs.updates)} :
        /\ InBounds(b.db)
        /\ SetDb(b.db)
        /\ loopI' = loopI + 1
        /\ loopCount' = IF b.hit THEN loopCount + 1 ELSE loopCount
        /\ loopHist' = IF b.hit
                       THEN [loopHist EXCEPT !.old = @ \cup {b.old}, !.new = @ \cup {b.new}]
                       ELSE loopHist
        /\ rows' = IF b.hit
                   THEN [rows EXCEPT ![b.rec.id] = [kind |-> "live", rec |-> b.rec]]
                   ELSE rows
        /\ UNCHANGED <<autoInc, pc, loopArgs, lastRet>>

\* the iterator is exhausted: return count
TableUpdateReturn ==
    /\ pc = "update"
    /\ loopI >= Len(Eng_offsets(DbState))
    /\ pc' = "idle"
    /\ lastRet' = [op |-> "update", ret |-> loopCount, updates |-> loopArgs.updates,
                   matched |-> loopHist.matched, len0 |-> loopHist.len0,
                   old |-> loopHist.old, new |-> loopHist.new]
    /\ loopI' = 0
    /\ loopCount' = 0
    /\ loopArgs' = None
    /\ loopHist' = None
    /\ UNCHANGED <<lsmVars, feVars, blkVars, libVars, engine, autoInc, rows>>

TblNext ==
    \/ \E name \in Names : \E age \in Ages : TableInsert(name, age)
    \/ \E where \in Wheres : TableSelect(where)
    \/ TableScan
    \/ \E where \in Wheres : TableDelete(where)
    \/ \E where \in Wheres : \E updates \in Updates : TableUpdateBegin(where, updates)
    \/ TableUpdateStep
    \/ TableUpdateReturn

\* ------------------------------------- FileStorageEngine: commit, rollback
\* json.dumps of the values a log entry holds: a record (its age may have
\* become the string 'x' after it was logged), {"id": n}, a container
\* name, an offset
JSON_dumps_data(d) ==
    IF "name" \in DOMAIN d
    THEN <<123, 34, 110, 97, 109, 101, 34, 58, 32, 34, d.name, 34>>
             \o <<44, 32, 34, 97, 103, 101, 34, 58, 32>>
             \o (IF d.age = BadAge THEN <<34, 120, 34>> ELSE Str(d.age))
             \o <<44, 32, 34, 105, 100, 34, 58, 32>> \o Str(d.id) \o <<125>>
    ELSE <<123, 34, 105, 100, 34, 58, 32>> \o Str(d.id) \o <<125>>

JSON_dumps_target(operation, target) ==
    IF operation = "UPDATE" THEN Str(target.some) ELSE <<34>> \o target \o <<34>>

\* "INSERT", "UPDATE", "DELETE" as bytes
OperationBytes(operation) ==
    CASE operation = "INSERT" -> <<73, 78, 83, 69, 82, 84>>
      [] operation = "UPDATE" -> <<85, 80, 68, 65, 84, 69>>
      [] operation = "DELETE" -> <<68, 69, 76, 69, 84, 69>>

\* {"operation": "...", "target": ..., "data": ...}
JSON_dumps_entry(e) ==
    <<123, 34, 111, 112, 101, 114, 97, 116, 105, 111, 110, 34, 58, 32, 34>>
        \o OperationBytes(e.operation)
        \o <<34, 44, 32, 34, 116, 97, 114, 103, 101, 116, 34, 58, 32>>
        \o JSON_dumps_target(e.operation, e.target)
        \o <<44, 32, 34, 100, 97, 116, 97, 34, 58, 32>>
        \o JSON_dumps_data(e.data) \o <<125>>

\* json.dumps(self._transaction_log): [entry, entry, ...]
RECURSIVE JSON_join(_)
JSON_join(log) ==
    IF log = <<>> THEN <<>>
    ELSE JSON_dumps_entry(Head(log))
             \o (IF Len(log) = 1 THEN <<>> ELSE <<44, 32>> \o JSON_join(Tail(log)))

JSON_dumps_log(log) == <<91>> \o JSON_join(log) \o <<93>>

\* A commit that writes the block and keeps the pending list.
FE_commit_KeepsPending(f) ==
    IF f.tlog # <<>>
    THEN FM_append_block(f, FE_create_block(TLOG, JSON_dumps_log(f.tlog))).st
    ELSE f

\* commit(): a pending list that is not empty goes to the file as one TLOG
\* block and is cleared
FE_commit(f) ==
    IF f.tlog # <<>>
    THEN [FM_append_block(f, FE_create_block(TLOG, JSON_dumps_log(f.tlog))).st
             EXCEPT !.tlog = <<>>]
    ELSE f

\* rollback(): the pending list is cleared
FE_rollback(f) == [f EXCEPT !.tlog = <<>>]

\* engine.commit() between two calls of the table
FeCommit ==
    /\ engine = "file"
    /\ pc = "idle"
    /\ SetDb([DbState EXCEPT !.f = FE_commit(@)])
    /\ lastRet' = [op |-> "commit", pending |-> Len(tlog)]
    /\ UNCHANGED <<autoInc, pc, loopI, loopCount, loopArgs, loopHist, rows>>

\* engine.rollback() between two calls of the table
FeRollback ==
    /\ engine = "file"
    /\ pc = "idle"
    /\ SetDb([DbState EXCEPT !.f = FE_rollback(@)])
    /\ lastRet' = [op |-> "rollback", pending |-> Len(tlog)]
    /\ UNCHANGED <<autoInc, pc, loopI, loopCount, loopArgs, loopHist, rows>>

\* The calls of the table that write to the log (with one condition and one
\* update), a scan, and the two calls on the log.
TxnNext ==
    \/ \E name \in Names : \E age \in Ages : TableInsert(name, age)
    \/ TableScan
    \/ TableDelete([id |-> 1])
    \/ TableUpdateBegin([id |-> 1], [age |-> 31])
    \/ TableUpdateStep
    \/ TableUpdateReturn
    \/ FeCommit
    \/ FeRollback

\* ------------------------------------------------- close and open: actions
\* initialize() has written the META block of an engine without tables
PerInit ==
    /\ perPc = "open"
    /\ perMeta = FE_create_block(META, JSON_dumps_empty_metadata)
    /\ perSaved = None
    /\ FileStart = HEADER_SIZE + Len(perMeta)

\* engine.close() between two calls of the table
PerClose ==
    /\ perPc = "open"
    /\ pc = "idle"
    /\ perPc' = "closed"
    /\ perSaved' = [offsets |-> feOffsets, scan |-> FE_scan_table(FeState, Users).recs]
    /\ fmBytes' = FE_close(FeState, perMeta).st.bytes
    /\ perMeta' = FE_close(FeState, perMeta).meta
    /\ UNCHANGED <<cacheSize, cache, idIndex, feOffsets, tlog, inserted>>
    /\ UNCHANGED <<lsmVars, tblVars, blkVars, btVars, walVars, ringVars, tierVars, bxVars, lruVars>>

\* FileStorageEngine(path, cache_size).open(): a new engine on the file
PerOpen ==
    /\ perPc = "closed"
    /\ perPc' = "open"
    /\ \E f \in {FE_reopen(FeState, perMeta)} :
        /\ cache' = f.cache
        /\ idIndex' = f.index
        /\ feOffsets' = f.offsets
        /\ tlog' = f.tlog
    /\ UNCHANGED <<fmBytes, cacheSize, inserted, perMeta, perSaved>>
    /\ UNCHANGED <<lsmVars, tblVars, blkVars, btVars, walVars, ringVars, tierVars, bxVars, lruVars>>

\* The table is used while the engine is open; the engine is closed and
\* opened again.
PerNext ==
    \/ perPc = "open" /\ \E name \in Names : \E age \in Ages : TableInsert(name, age)
    \/ perPc = "open" /\ TableScan
    \/ perPc = "open" /\ \E where \in Wheres : TableDelete(where)
    \/ PerClose
    \/ PerOpen

\* ------------------------------- BTreeIndex: inserts of any type, deletes
MaxBxKeys == 5
MaxBxCalls == 6

\* The int values of the indexed field.
BxKeys == 1..MaxBxKeys

\* _update_indexes for one index: index.insert(value, offset), TypeError
\* passed over
FE_update_index(index, value, offset) == BT_insert_typed(index, value, offset).st

\* insert_record reaching _update_indexes with the value of the indexed field
BxInsert(key) ==
    /\ bxCalls < MaxBxCalls
    /\ key \notin btKeys
    /\ btIndex' = FE_update_index(btIndex, key, BTOffset(key))
    /\ btKeys' = IF BT_insert_typed(btIndex, key, BTOffset(key)).raised
                 THEN btKeys
                 ELSE btKeys \cup {key}
    /\ bxRet' = [op |-> "insert", key |-> key, ret |-> FALSE,
                 raised |-> BT_insert_typed(btIndex, key, BTOffset(key)).raised]
    /\ bxCalls' = bxCalls + 1
    /\ btScen' = -1
    /\ UNCHANGED <<lsmVars, feVars, tblVars, blkVars, walVars, ringVars, tierVars,
                   perVars, lruVars>>

\* index.delete(key)
BxDelete(key) ==
    /\ bxCalls < MaxBxCalls
    /\ \E r \in {BT_delete(btIndex, key)} :
        /\ btIndex' = r.st
        /\ btKeys' = IF r.ret THEN btKeys \ {key} ELSE btKeys
        /\ bxRet' = [op |-> "delete", key |-> key, ret |-> r.ret, raised |-> r.raised]
    /\ bxCalls' = bxCalls + 1
    /\ btScen' = -1
    /\ UNCHANGED <<lsmVars, feVars, tblVars, blkVars, walVars, ringVars, tierVars,
                   perVars, lruVars>>

\* Values of the indexed field arrive, ints and a str; keys are deleted.
BxNext ==
    \/ \E key \in BxKeys \cup {StrKey} : BxInsert(key)
    \/ \E key \in BxKeys \cup {0} : BxDelete(key)

\* -------------------------------------------------- CacheManager: actions
MaxLruKeys == 3
MaxLruGets == 3

\* The keys and values given to the cache.
LruKeys == 1..MaxLruKeys
LruVals == {10, 11}

\* the keys held by the cache
CacheKeys(c) == {c[i].key : i \in 1..Len(c)}

\* the touch order after a get hit or a put of key
Touched(t, key) == SelectSeq(t, LAMBDA k : k # key) \o <<key>>

\* cache.get(key)
LruGet(key) ==
    /\ lruGets < MaxLruGets
    /\ cache' = Cache_get(cache, key)
    /\ lruHits' = IF CacheHas(cache, key) THEN lruHits + 1 ELSE lruHits
    /\ lruMisses' = IF CacheHas(cache, key) THEN lruMisses ELSE lruMisses + 1
    /\ lruGets' = lruGets + 1
    /\ lruTouch' = IF CacheHas(cache, key) THEN Touched(lruTouch, key) ELSE lruTouch
    /\ lruRet' = [op |-> "get", key |-> key, evicted |-> {}]
    /\ UNCHANGED <<fmBytes, cacheSize, idIndex, feOffsets, tlog, inserted>>
    /\ UNCHANGED <<lsmVars, tblVars, blkVars, btVars, walVars, ringVars, tierVars,
                   perVars, bxVars>>

\* cache.put(key, value)
LruPut(key, value) ==
    /\ \E c \in {Cache_put(cache, cacheSize, key, value, value)} :
        /\ cache' = c
        /\ lruTouch' = SelectSeq(Touched(lruTouch, key), LAMBDA k : k \in CacheKeys(c))
        /\ lruRet' = [op |-> "put", key |-> key,
                      evicted |-> (CacheKeys(cache) \cup {key}) \ CacheKeys(c)]
    /\ UNCHANGED <<lruHits, lruMisses, lruGets>>
    /\ UNCHANGED <<fmBytes, cacheSize, idIndex, feOffsets, tlog, inserted>>
    /\ UNCHANGED <<lsmVars, tblVars, blkVars, btVars, walVars, ringVars, tierVars,
                   perVars, bxVars>>

\* cache.invalidate(key)
LruInvalidate(key) ==
    /\ cache' = Cache_invalidate(cache, key)
    /\ lruTouch' = SelectSeq(lruTouch, LAMBDA k : k # key)
    /\ lruRet' = [op |-> "invalidate", key |-> key, evicted |-> {}]
    /\ UNCHANGED <<lruHits, lruMisses, lruGets>>
    /\ UNCHANGED <<fmBytes, cacheSize, idIndex, feOffsets, tlog, inserted>>
    /\ UNCHANGED <<lsmVars, tblVars, blkVars, btVars, walVars, ringVars, tierVars,
                   perVars, bxVars>>

\* cache.clear()
LruClear ==
    /\ cache' = <<>>
    /\ lruHits' = 0
    /\ lruMisses' = 0
    /\ lruGets' = 0
    /\ lruTouch' = <<>>
    /\ lruRet' = [op |-> "clear", key |-> 0, evicted |-> {}]
    /\ UNCHANGED <<fmBytes, cacheSize, idIndex, feOffsets, tlog, inserted>>
    /\ UNCHANGED <<lsmVars, tblVars, blkVars, btVars, walVars, ringVars, tierVars,
                   perVars, bxVars>>

LruNext ==
    \/ \E key \in LruKeys : LruGet(key)
    \/ \E key \in LruKeys : \E value \in LruVals : LruPut(key, value)
    \/ \E key \in LruKeys : LruInvalidate(key)
    \/ LruClear

\* ------------------------------------------------------------ specifications
\* The LSM engine driven directly.
LsmAlone ==
    /\ LibIdle
    /\ LsmInit
    /\ FeInit
    /\ TblIdle
    /\ BlkIdle
    /\ engine = "lsm"
    /\ cacheSize = 1

SpecLSM == LsmAlone /\ [][LsmNext]_vars

SpecLSMCrash == LsmAlone /\ [][LsmCrashNext]_vars

\* A table on the append engine or on the LSM engine.
SpecTable == TblInit /\ [][TblNext]_vars

\* One block framed, possibly perturbed, and parsed.
BlkAlone ==
    /\ LibIdle
    /\ LsmInit
    /\ FeInit
    /\ TblIdle
    /\ BlkInit
    /\ engine = "file"
    /\ cacheSize = 1
    /\ capacity = 1

SpecBlock == BlkAlone /\ [][BlkNext]_vars

\* A BTreeIndex of order 2..MaxOrder filled by inserts of distinct keys.
BtAlone ==
    /\ LsmInit
    /\ FeInit
    /\ TblIdle
    /\ BlkIdle
    /\ BtInit
    /\ WalInit
    /\ RingIdle
    /\ TierIdle
    /\ engine = "file"
    /\ cacheSize = 1
    /\ capacity = 1

SpecBTree == BtAlone /\ [][BtNext]_vars

\* One wal.log: appends, then possibly a cut, then recover.
WalAlone ==
    /\ LsmInit
    /\ FeInit
    /\ TblIdle
    /\ BlkIdle
    /\ BtIdle
    /\ WalInit
    /\ RingIdle
    /\ TierIdle
    /\ engine = "lsm"
    /\ cacheSize = 1
    /\ capacity = 1

SpecWal == WalAlone /\ [][WalNext]_vars

\* One ring: nodes added and removed.
RingAlone ==
    /\ LsmInit
    /\ FeInit
    /\ TblIdle
    /\ BlkIdle
    /\ BtIdle
    /\ WalInit
    /\ RingInit
    /\ TierIdle
    /\ engine = "file"
    /\ cacheSize = 1
    /\ capacity = 1

SpecRing == RingAlone /\ [][RingNext]_vars

\* The row tier at rest, for the components driven on their own.
RowIdle ==
    /\ ExtIdle
    /\ LsmInit
    /\ FeInit
    /\ TblIdle
    /\ BlkIdle
    /\ engine = "file"
    /\ cacheSize = 1
    /\ capacity = 1

\* One cluster client: writes and reads, one call at a time.
CluAlone ==
    /\ RowIdle
    /\ BtIdle
    /\ WalInit
    /\ CluInit
    /\ VecIdle
    /\ ColIdle
    /\ OpnIdle
    /\ LsmCallIdle

SpecCluster == CluAlone /\ [][CluNext]_vars

\* One VectorIndex: adds and searches, one call at a time.
VecAlone ==
    /\ RowIdle
    /\ BtIdle
    /\ WalInit
    /\ RingIdle
    /\ CluIdle
    /\ VecInit
    /\ ColIdle
    /\ OpnIdle
    /\ LsmCallIdle

SpecVector == VecAlone /\ [][VecNext]_vars

\* One ColumnarTable: batches inserted, aggregates asked for.
ColAlone ==
    /\ RowIdle
    /\ BtIdle
    /\ WalInit
    /\ RingIdle
    /\ CluIdle
    /\ VecIdle
    /\ ColInit
    /\ OpnIdle
    /\ LsmCallIdle

SpecColumnar == ColAlone /\ [][ColNext]_vars

\* One database file: closed, possibly damaged, opened by a new engine.
OpnAlone ==
    /\ RowIdle
    /\ BtIdle
    /\ WalInit
    /\ RingIdle
    /\ CluIdle
    /\ VecIdle
    /\ ColIdle
    /\ OpnInit
    /\ LsmCallIdle

SpecOpen == OpnAlone /\ [][OpnNext]_vars

\* The LSM engine driven directly, create_index and rollback among the calls.
SpecLSMCalls == LsmAlone /\ [][LsmCallsNext]_vars

\* The LSM engine with crashes and with puts the WAL cannot take.
SpecLSMWal == LsmAlone /\ [][LsmWalNext]_vars

\* A table on the append engine, commit and rollback among the calls.
TxnInit == TblInit /\ engine = "file"

SpecTxn == TxnInit /\ [][TxnNext]_vars

\* A table on the append engine whose file is closed and opened again.
PerAlone ==
    /\ BtIdle
    /\ WalInit
    /\ RingIdle
    /\ CluIdle
    /\ VecIdle
    /\ ColIdle
    /\ OpnIdle
    /\ LsmCallIdle
    /\ PerInit
    /\ BxIdle
    /\ LruIdle
    /\ LsmInit
    /\ FeInit
    /\ TblIdle
    /\ BlkIdle
    /\ engine = "file"
    /\ cacheSize \in 1..MaxCache
    /\ capacity = 1

SpecPersist == PerAlone /\ [][PerNext]_vars

\* A BTreeIndex of order 2..MaxOrder under inserts of any type and deletes.
SpecBTreeOps == BtAlone /\ [][BxNext]_vars

\* A CacheManager of capacity 0..MaxCache on its own.
LruAlone ==
    /\ LsmInit
    /\ FeInit
    /\ TblIdle
    /\ BlkIdle
    /\ LibIdle
    /\ engine = "file"
    /\ cacheSize \in 0..MaxCache
    /\ capacity = 1

SpecCache == LruAlone /\ [][LruNext]_vars

\* ----------------------------------------------------------- adapter: claims
\* C5: Table.update terminates and returns the number of records that
\* matched when the call began: every pass of its loop brings the loop
\* index closer to the end of the offset list, and when the call returns
\* (the updates being valid for the schema) the count is that number.
C5_UpdateTerminatesWithCount ==
    [][/\ (pc = "update" /\ pc' = "update") =>
              Len(Eng_offsets(DbState))' - loopI' < Len(Eng_offsets(DbState)) - loopI
       /\ (pc = "update" /\ pc' = "idle" /\ Table_validate_record(loopArgs.updates)) =>
              lastRet'.ret = lastRet'.matched]_vars

\* C6: when Table.update has returned on the append engine, the offset list
\* is as long as it was when the call began, holds the offset of every new
\* version exactly once and holds no superseded offset.
C6_UpdateKeepsOffsetCount ==
    (engine = "file" /\ pc = "idle" /\ lastRet.op = "update") =>
        /\ Len(feOffsets) = lastRet.len0
        /\ \A o \in lastRet.new \ lastRet.old :
               Cardinality({i \in 1..Len(feOffsets) : feOffsets[i] = o}) = 1
        /\ \A o \in lastRet.old : ~InList(feOffsets, o)

\* C7: when Table.delete(where) has returned, on either engine, it returned
\* the number of records that matched when it was called, count() went down
\* by that number, select(where) is empty, every record that did not match
\* is still in select(), and on the LSM engine no deleted id can be read.
C7_DeleteRemovesMatching ==
    (pc = "idle" /\ lastRet.op = "delete") =>
        /\ lastRet.ret = lastRet.matched
        /\ Table_count(DbState) = lastRet.count0 - lastRet.ret
        /\ Table_select(DbState, Users, lastRet.where).recs = <<>>
        /\ lastRet.keep \subseteq SeqToSet(Eng_scan_table(DbState, Users).recs)
        /\ engine = "lsm" =>
               \A id \in Ids : rows[id].kind = "deleted" =>
                   ~LSM_read_record(LsmState, Users, id).ok

\* C8: on the append engine, between adapter calls, select on the id of a
\* deleted row returns nothing and select on the id of a live row returns
\* exactly its present version.
C8_IdQueriesSeeUpdatesAndDeletes ==
    (engine = "file" /\ pc = "idle") =>
        \A id \in Ids :
            /\ rows[id].kind = "deleted" =>
                   Table_select(DbState, Users, [id |-> id]).recs = <<>>
            /\ rows[id].kind = "live" =>
                   Table_select(DbState, Users, [id |-> id]).recs = <<rows[id].rec>>

\* C9: on the append engine, between adapter calls, for every offset o that
\* insert_record returned for a record R, while o is in the offset list and
\* R is still the present version of its row, read_record(o) returns a
\* record equal to R as it was given to insert_record.
C9_ReadAfterInsert ==
    (engine = "file" /\ pc = "idle") =>
        \A o \in DOMAIN inserted :
            (/\ InList(feOffsets, o)
             /\ rows[inserted[o].id] = [kind |-> "live", rec |-> inserted[o]]) =>
                /\ FE_read_record(FeState, Users, o).ok
                /\ FE_read_record(FeState, Users, o).rec = inserted[o]

\* ----------------------------------------------------------- B-tree: claims
\* The keys of a subtree in in-order: child, key, child, ..., key, child.
RECURSIVE InOrderFrom(_, _)
InOrderFrom(node, i) ==
    IF node.is_leaf THEN node.keys
    ELSE IF i > Len(node.children) THEN <<>>
    ELSE InOrderFrom(node.children[i], 1)
         \o (IF i <= Len(node.keys) THEN <<node.keys[i]>> ELSE <<>>)
         \o InOrderFrom(node, i + 1)

InOrder(index) == InOrderFrom(index.root, 1)

\* The elements of a set of integers in ascending order.
RECURSIVE Ascending(_)
Ascending(S) ==
    IF S = {} THEN <<>>
    ELSE LET m == CHOOSE x \in S : \A y \in S : x <= y
         IN  <<m>> \o Ascending(S \ {m})

\* The nodes of a subtree, each with its depth and whether it is the root.
RECURSIVE NodesFrom(_, _)
NodesFrom(node, depth) ==
    {[node |-> node, depth |-> depth]}
        \cup UNION {NodesFrom(node.children[i], depth + 1) : i \in 1..Len(node.children)}

Nodes(index) == NodesFrom(index.root, 0)

StrictlyAscending(keys) == \A i \in 1..(Len(keys) - 1) : keys[i] < keys[i + 1]

\* C11: after inserts of pairwise distinct keys K, search(k) returns the
\* offset inserted with k for every k in K and None for every other key,
\* and the in-order traversal of the tree is K in ascending order.
C11_SearchFindsInserted ==
    /\ \A k \in BTProbes :
           BT_search(btIndex, k) = IF k \in btKeys THEN Some(BTOffset(k)) ELSE None
    /\ InOrder(btIndex) = Ascending(btKeys)

\* C11 witness: every key is in, in a tree of order 3 whose root has split.
C11_AllKeysInOrder3 ==
    /\ btKeys = BTKeys
    /\ btIndex.order = 3
    /\ ~btIndex.root.is_leaf

\* C12: after inserts, every node's keys are sorted ascending, every node
\* holds at most 2t-1 keys, every node but the root at least t-1, every
\* internal node has len(keys)+1 children, and all leaves have one depth.
C12_ShapeInvariant ==
    LET t == btIndex.order
        N == Nodes(btIndex)
    IN  /\ \A x \in N :
               /\ StrictlyAscending(x.node.keys)
               /\ Len(x.node.keys) <= 2 * t - 1
               /\ x.depth > 0 => Len(x.node.keys) >= t - 1
               /\ ~x.node.is_leaf => Len(x.node.children) = Len(x.node.keys) + 1
               /\ Len(x.node.values) = Len(x.node.keys)
        /\ \A x, y \in N : (x.node.is_leaf /\ y.node.is_leaf) => x.depth = y.depth

\* C12 witness: a tree of three levels: an internal node was split.
C12_ThreeLevels ==
    /\ ~btIndex.root.is_leaf
    /\ ~btIndex.root.children[1].is_leaf

\* C13 as written: with t = 2, the inserts 10,20,5,6,12,30,7,17 leave a
\* root holding [10,17] with the children [5,6,7], [12] and [20,30].
C13_ScenarioTreeAsWritten ==
    btScen = Len(Scenario) =>
        /\ btIndex.root.keys = <<10, 17>>
        /\ Len(btIndex.root.children) = 3
        /\ btIndex.root.children[1].keys = <<5, 6, 7>>
        /\ btIndex.root.children[2].keys = <<12>>
        /\ btIndex.root.children[3].keys = <<20, 30>>

\* C13 amended: with t = 2, the inserts 10,20,5,6,12,30,7,17 leave a root
\* holding [10,20] with exactly the three leaf children [5,6,7], [12,17]
\* and [30]: the full child [12,20,30] is split before 17 descends, and
\* its median 20 goes up.
C13_ScenarioTree ==
    btScen = Len(Scenario) =>
        /\ btIndex.root.keys = <<10, 20>>
        /\ Len(btIndex.root.children) = 3
        /\ btIndex.root.children[1].keys = <<5, 6, 7>>
        /\ btIndex.root.children[2].keys = <<12, 17>>
        /\ btIndex.root.children[3].keys = <<30>>
        /\ \A i \in 1..3 : btIndex.root.children[i].is_leaf

\* C13 witness: the eight inserts of the scenario were made, in that order.
C13_ScenarioDone == btScen = Len(Scenario) /\ btIndex.size = Len(Scenario)

\* The pairs of the keys of K within [lo, hi], in ascending key order.
PairsWithin(K, lo, hi) ==
    LET ks == Ascending({k \in K : lo <= k /\ k <= hi})
    IN  [i \in 1..Len(ks) |-> <<ks[i], BTOffset(ks[i])>>]

\* C14: range_search(lo, hi) is exactly the (key, offset) pairs with
\* lo <= key <= hi, each once, in ascending key order; after the scenario
\* range_search(6, 20) gives the pairs of 6, 7, 10, 12, 17, 20.
C14_RangeSearchExact ==
    /\ \A lo, hi \in BTProbes :
           BT_range_search(btIndex, lo, hi) = PairsWithin(btKeys, lo, hi)
    /\ btScen = Len(Scenario) =>
           BT_range_search(btIndex, 6, 20) =
               <<<<6, 600>>, <<7, 700>>, <<10, 1000>>, <<12, 1200>>, <<17, 1700>>,
                 <<20, 2000>>>>

\* C14 witness: a range of a tree of three levels that leaves out keys at
\* both ends and keeps keys of both halves.
C14_RangeAcrossLevels ==
    /\ btIndex.order = 2
    /\ ~btIndex.root.is_leaf
    /\ ~btIndex.root.children[1].is_leaf
    /\ Len(BT_range_search(btIndex, 6, 20)) = 6
    /\ Cardinality(btKeys) = 9

\* ------------------------------------------------------------ flush: claims
\* The entries of a run file, decoded: (key, value) in file order.
RunEntries(content) == [i \in 1..Len(content) |-> <<content[i][1], Unpack(content[i][2])>>]

\* C15: right after a flush the new run holds exactly the entries the
\* MemTable held when the flush began (one per key, tombstones included)
\* in strictly ascending key order, the MemTable and the WAL are empty, and
\* the new run is the head of the newest-first run list.
C15_FlushResult ==
    [][Len(sstFiles') > Len(sstFiles) =>
        \E id \in Ids : \E value \in PutValues(id) :
            LET began == MemTable_put(LsmState, Key(Users, id), value)
                run == sstFiles'[Len(sstFiles')]
            IN  /\ began.last = lastWrite'
                /\ began.n = writes'
                /\ Len(sstFiles') = Len(sstFiles) + 1
                /\ RunEntries(run) = SortedItems(began.mem)
                /\ \A i \in 1..(Len(run) - 1) : SeqLess(run[i][1], run[i + 1][1])
                /\ memData' = EmptyDict
                /\ wal' = <<>>
                /\ Len(sstables') = Len(sstables) + 1
                /\ sstables'[1] = SSTable_load(Len(sstFiles') - 1, run)
                /\ \A i \in 1..Len(sstables) : sstables'[i + 1] = sstables[i]]_vars

\* C15 witness: a run of two entries, one of them a tombstone, was just
\* written by a flush: the MemTable and the WAL are empty.
C15_RunWithTombstone ==
    /\ lsmStatus = "open"
    /\ Len(sstFiles) = 1
    /\ Len(sstables) = 1
    /\ memData = EmptyDict
    /\ wal = <<>>
    /\ Len(sstFiles[1]) = 2
    /\ \E i \in 1..2 : sstFiles[1][i][2] = Pack(None)

\* The writes made so far are puts of pairwise distinct keys on an engine
\* that was initialized, never reopened.
OnlyDistinctPuts ==
    /\ lsmStatus = "open"
    /\ ~lsmRecovered
    /\ writes = Cardinality({id \in Ids : lastWrite[id].kind = "put"})
    /\ \A id \in Ids : lastWrite[id].kind # "del"

\* C16: on a freshly initialized engine of MemTable capacity N, N puts of
\* distinct keys leave no run on disk, and the (N+1)-th put triggers the
\* one flush: one run exists and the WAL is empty when it returns.
C16_FlushOnPutAfterFull ==
    OnlyDistinctPuts =>
        /\ writes <= capacity => sstFiles = <<>>
        /\ writes = capacity + 1 => (Len(sstFiles) = 1 /\ wal = <<>>)

\* C17: close() of an engine whose MemTable is not empty writes a new run
\* with the MemTable's entries and leaves the WAL empty.
C17_CloseFlushes ==
    [][(lsmStatus = "open" /\ lsmStatus' = "closed" /\ memData # EmptyDict) =>
        /\ Len(sstFiles') = Len(sstFiles) + 1
        /\ RunEntries(sstFiles'[Len(sstFiles')]) = SortedItems(memData)
        /\ wal' = <<>>]_vars

\* -------------------------------------------------------- WAL file: claims
\* The entries of the log that lie whole within the first n bytes.
RECURSIVE WholeWithin(_, _)
WholeWithin(log, n) ==
    IF log = <<>> THEN <<>>
    ELSE LET size == Len(WAL_entry(Head(log)[1], Head(log)[2]))
         IN  IF size > n THEN <<>>
             ELSE <<Head(log)>> \o WholeWithin(Tail(log), n - size)

\* C18: for a WAL file cut at any byte position, WAL.recover returns
\* without raising exactly the complete entries that precede the cut, in
\* write order, and drops the partial entry at the end.
C18_TruncatedLogRecovers ==
    walPc = "recovered" =>
        /\ walOut.ok
        /\ walOut.entries = WholeWithin(walLog, Len(walFile))

\* ------------------------------------------------------------ ring: claims
\* The placement of a key: what get_node(key) gives now.
Placement(key) == RING_get_node(RingState, key)

\* The node of the leftmost virtual-node hash >= h, that of the smallest
\* virtual-node hash when there is none.
LeftmostAtOrAfter(h) ==
    LET hs == DOMAIN ringMap
        ge == {v \in hs : v >= h}
        least(S) == CHOOSE x \in S : \A y \in S : x <= y
    IN  ringMap[IF ge # {} THEN least(ge) ELSE least(hs)]

\* C19: on a non-empty ring, get_node(key) is the node of the leftmost
\* virtual-node hash >= hash(key), wrapping to the smallest one; a key
\* whose hash is a virtual node's hash is placed on that virtual node's
\* node.
C19_PlacementAtOrAfterHash ==
    DOMAIN ringMap # {} =>
        \A key \in Labels :
            Placement(key) = [node |-> LeftmostAtOrAfter(RING_hash(key))]

\* The placement after the step.
PlacementNext(key) == RING_get_node(RingState', key)

\* C20: after add_node(n), every key whose placement differs from before
\* is placed on n, and on a ring that had a node before some key keeps its
\* placement; after remove_node(n), only keys that were placed on n have
\* another placement.
C20_MinimalReshuffle ==
    [][\A n \in RingNodes :
        /\ RING_add_node(RingState, n) = RingState' =>
               /\ \A key \in Labels :
                      PlacementNext(key) # Placement(key) =>
                          PlacementNext(key) = [node |-> n]
               /\ DOMAIN ringMap # {} =>
                      \E key \in Labels : PlacementNext(key) = Placement(key)
        /\ ((\E h \in DOMAIN ringMap : ringMap[h] = n)
                /\ RING_remove_node(RingState, n) = RingState') =>
               \A key \in Labels :
                   PlacementNext(key) # Placement(key) => Placement(key) = [node |-> n]
      ]_vars

\* --------------------------------------------------------- cluster: claims
\* C21: a write sends exactly one request, to the node get_node gives for
\* the document's key (the given one, or a generated one that is stored in
\* the document); when that request fails the call raises and no other
\* node is sent anything; on an empty ring it raises and sends nothing.
C21_WriteRouting ==
    cluCall.op = "write" =>
        /\ cluCall.given # None => cluCall.doc_key = cluCall.given.some
        /\ cluCall.doc_key \in DocKeys
        /\ IF DOMAIN ringMap = {}
           THEN cluSent = <<>> /\ "error" \in DOMAIN cluRet
           ELSE /\ Len(cluSent) = 1
                /\ [node |-> cluSent[1].node] = Placement(cluCall.doc_key)
                /\ cluSent[1].path = "write"
                /\ cluCall.answer = "ok" => cluRet = [json |-> "ok"]
                /\ cluCall.answer # "ok" => "error" \in DOMAIN cluRet

\* a write without a key whose request failed, on a ring of two nodes
C21_FailedWriteOnTwoNodes ==
    /\ cluCall.op = "write"
    /\ cluCall.given = None
    /\ cluCall.answer = "no_connection"
    /\ Cardinality(UniqueNodes) = 2
    /\ Len(cluSent) = 1
    /\ "error" \in DOMAIN cluRet

\* C22: a read without the key field contacts each distinct node at most
\* once, returns the first response that is not null (an empty list
\* included) and contacts no node after it, and returns None only when
\* every node answered null or failed; a read with the key field contacts
\* exactly the node get_node gives for the key.
C22_ScatterFirstNonNull ==
    cluCall.op = "read" =>
        IF cluCall.given # None
        THEN DOMAIN ringMap # {} =>
                 /\ Len(cluSent) = 1
                 /\ [node |-> cluSent[1].node] = Placement(cluCall.given.some)
        ELSE LET nonnull == {i \in 1..Len(cluSent) :
                                cluSent[i].answer \in {"empty", "doc"}}
             IN  /\ \A i, j \in 1..Len(cluSent) :
                        i # j => cluSent[i].node # cluSent[j].node
                 /\ \A i \in 1..Len(cluSent) : cluSent[i].node \in UniqueNodes
                 /\ IF nonnull = {}
                    THEN /\ cluRet = None
                         /\ {cluSent[i].node : i \in 1..Len(cluSent)} = UniqueNodes
                    ELSE /\ \A i \in nonnull : i = Len(cluSent)
                         /\ cluRet = CLUSTER_read_from_node(cluSent[Len(cluSent)].answer)

\* ---------------------------------------------------------- vector: claims
\* The index holds rows of its dimension only and is asked with a query of
\* that dimension.
WellFormedSearch ==
    /\ vecOut # None
    /\ vecOut.op = "search"
    /\ Len(vecOut.q) = vecDim
    /\ \A i \in 1..Len(vecRows) : Len(vecRows[i]) = vecDim

Min(a, b) == IF a <= b THEN a ELSE b

\* C23: search(q, k) on an index of N vectors returns at most min(k, N)
\* pairs, exactly min(k, N) when q is not the zero vector, so none for
\* k = 0; a zero query gives an empty result for every k.
C23_SearchResultSize ==
    WellFormedSearch =>
        /\ "list" \in DOMAIN vecOut.ret
        /\ Len(vecOut.ret.list) <= Min(vecOut.k, Len(vecRows))
        /\ Dot(vecOut.q, vecOut.q) # 0 =>
               Len(vecOut.ret.list) = Min(vecOut.k, Len(vecRows))
        /\ Dot(vecOut.q, vecOut.q) = 0 => vecOut.ret.list = <<>>

\* a comes before b: its score is higher, or equal with a lower row index
ComesBefore(a, b) ==
    \/ ScoreLess(b.score, a.score)
    \/ ~ScoreLess(a.score, b.score) /\ a.row < b.row

\* C24: the pairs search(q, k) returns are the k highest-scoring rows with
\* scores not increasing, rows of equal score being ordered, and chosen at
\* the k-th cut, by ascending row index.
C24_SearchOrdering ==
    (WellFormedSearch /\ vecOut.k >= 1 /\ "list" \in DOMAIN vecOut.ret) =>
        LET l == vecOut.ret.list
            rest == (1..Len(vecRows)) \ {l[i].row : i \in 1..Len(l)}
        IN  /\ \A i, j \in 1..Len(l) : i < j => ComesBefore(l[i], l[j])
            /\ Dot(vecOut.q, vecOut.q) # 0 =>
                   \A i \in 1..Len(l) : \A r \in rest :
                       ComesBefore(l[i], [score |-> VEC_score(vecRows[r], vecOut.q),
                                          row |-> r])

\* C25: after any adds, failed ones included, there are as many ids as rows
\* and every row has the index's dimension; an add of a vector of another
\* length stores nothing, the first add into an empty index included.
C25_RowsHaveDimension ==
    /\ Len(vecIds) = Len(vecRows)
    /\ \A i \in 1..Len(vecRows) : Len(vecRows[i]) = vecDim
    /\ (vecOut # None /\ vecOut.op = "add" /\ Len(vecOut.vector) # vecDim) =>
           /\ Len(vecRows) = vecOut.n0
           /\ "error" \in DOMAIN vecOut.ret

\* -------------------------------------------------------- columnar: claims
\* The aggregations the table knows.
KnownFuncs == {"sum", "avg", "mean", "max", "min", "count"}

\* C26: aggregate(column, func) raises whenever func is none of sum, avg,
\* mean, min, max, count and whenever column is no column of the table, in
\* every state of the table, one without rows included.
C26_AggregateRefusesUnknown ==
    (colOut # None /\ colOut.op = "aggregate"
        /\ (colOut.func \notin KnownFuncs \/ colOut.column \notin ColSchema)) =>
            "error" \in DOMAIN colOut.ret

\* ------------------------------------------------- schema violation: claims
\* C27: a pass of Table.update that meets a record the schema refuses
\* writes nothing and leaves the store as it was: the file, the WAL and
\* the MemTable are unchanged, the offset list is unchanged, and reading
\* the offsets gives the records and field values it gave before.
C27_RefusedUpdateChangesNothing ==
    [][(pc = "update" /\ pc' = "update" /\ ~Table_validate_record(loopArgs.updates)) =>
           /\ fmBytes' = fmBytes
           /\ wal' = wal
           /\ memData' = memData
           /\ LET after == [kind |-> engine', s |-> LsmState', f |-> FeState']
              IN  /\ Eng_offsets(after) = Eng_offsets(DbState)
                  /\ Held(after, Users) = Held(DbState, Users)
      ]_vars

\* ------------------------------------------------------------ open: claims
\* The META block at the fixed offset is truncated, fails its checksum, has
\* another type tag than META or a payload that cannot be decoded.
MetaCorrupt(file) ==
    LET parsed == FE_parse_block(file)
    IN  \/ ~parsed.ok
        \/ parsed.type # META
        \/ ~META_loads(parsed.data).ok

\* C28: open() of a database whose META block is corrupt fails with an
\* error; it never completes with an empty container directory.
C28_OpenOfCorruptFails ==
    (opnPc = "opened" /\ MetaCorrupt(opnFile)) => ~opnOut.ok

\* ----------------------------------------------- unsupported calls: claims
\* C29: on the LSM engine create_index, and rollback after writes that are
\* already durable, report an error to the caller instead of completing
\* silently.
C29_UnsupportedIsSurfaced ==
    (lsmCall # None /\ (lsmCall.op = "rollback" => lsmCall.writes > 0)) =>
        "error" \in DOMAIN lsmCall.ret

\* ----------------------------------------------- read by logical id: claims
\* C30: on the append engine, between adapter calls, read_record given the
\* logical id of a live record that the id index holds resolves the id
\* through the index and returns that record.
C30_ReadByLogicalId ==
    (engine = "file" /\ pc = "idle") =>
        \A id \in Ids :
            (rows[id].kind = "live" /\ FE_resolve_id_to_offset(FeState, id) # None) =>
                /\ FE_read_record(FeState, Users, id).ok
                /\ FE_read_record(FeState, Users, id).rec.id = id

\* ------------------------------------------------------ flush order: claims
\* The entry of the last returned write of id, as it lies in a file.
LastEntry(id) ==
    <<Key(Users, id),
      Pack(IF lastWrite[id].kind = "put" THEN lastWrite[id].rec ELSE None)>>

\* C31: at every point where the process can die, a flush included, the
\* entry last written for a key is in the WAL file or in a run file: the
\* run is on disk before the WAL is truncated.
C31_RunBeforeWalTruncation ==
    lsmStatus = "crashed" =>
        \A id \in Ids :
            lastWrite[id].kind # "none" =>
                \/ \E i \in 1..Len(wal) : wal[i] = LastEntry(id)
                \/ \E f \in 1..Len(sstFiles) :
                       \E j \in 1..Len(sstFiles[f]) : sstFiles[f][j] = LastEntry(id)

\* -------------------------------------------------------- WAL first: claims
\* C32: the MemTable never holds what the WAL file does not: on a running
\* engine the MemTable's map is the last-writer-wins replay of the entries
\* in the WAL file (after puts, deletes, flushes and recoveries), a step
\* that adds to the MemTable has appended that entry to the WAL, and a put
\* whose WAL append raises leaves the MemTable and the WAL as they were.
C32_WalFirst ==
    [][/\ lsmStatus' = "open" =>
              memData' = ReplayInto(EmptyDict, WAL_recover(wal'))
       /\ (lsmStatus = "open" /\ lsmStatus' = "open"
              /\ memData' # memData /\ memData' # EmptyDict) =>
              /\ Len(wal') = Len(wal) + 1
              /\ SubSeq(wal', 1, Len(wal)) = wal
              /\ memData' = DictSet(memData, wal'[Len(wal')][1],
                                    Unpack(wal'[Len(wal')][2]))
       /\ lsmCall' # lsmCall =>
              /\ "error" \in DOMAIN lsmCall'.ret
              /\ memData' = memData
              /\ memSize' = memSize
              /\ wal' = wal]_vars

\* C32 witness: a reopened engine that has flushed a run, whose WAL holds
\* two entries of one key (the MemTable has the later one), and on which a
\* put has just been refused by the WAL.
C32_ReplayedOverwriteAndRefusedPut ==
    /\ lsmStatus = "open"
    /\ lsmRecovered
    /\ sstFiles # <<>>
    /\ lsmCall # None
    /\ lsmCall.writes = writes
    /\ \E i, j \in 1..Len(wal) :
        /\ i < j
        /\ wal[i][1] = wal[j][1]
        /\ wal[i][2] # wal[j][2]
        /\ \A k \in (j + 1)..Len(wal) : wal[k][1] # wal[j][1]
        /\ memData[wal[j][1]] = Unpack(wal[j][2])

\* ----------------------------------------------------------- scan: claims
\* A container name other than Users: no key of the model starts with it.
OtherContainer == <<111>>

\* C33: on a running engine scan_table(C) returns exactly one value for
\* each key of C whose last write is a put, the value last put, and nothing
\* for a key whose last write is a delete or that was never written,
\* wherever the older values and the tombstones lie (runs, MemTable); a
\* scan of another container returns nothing.
C33_ScanIsReferenceMap ==
    lsmStatus = "open" =>
        LET out == LSM_scan_table(LsmState, Users)
        IN  /\ \A id \in Ids :
                 LET at == {i \in 1..Len(out) : out[i].id = id}
                 IN  IF lastWrite[id].kind = "put"
                     THEN /\ Cardinality(at) = 1
                          /\ \A i \in at : out[i] = lastWrite[id].rec
                     ELSE at = {}
            /\ \A i \in 1..Len(out) : out[i].id \in Ids
            /\ LSM_scan_table(LsmState, OtherContainer) = <<>>

\* C33 witness: the two newest runs hold different values of one key and
\* the scan returns a record.
C33_ScanAcrossRuns ==
    /\ lsmStatus = "open"
    /\ Len(sstables) >= 2
    /\ LSM_scan_table(LsmState, Users) # <<>>
    /\ \E id \in Ids :
        /\ SSTable_get(sstables[1], sstFiles, Key(Users, id)) \in PutRecords
        /\ SSTable_get(sstables[2], sstFiles, Key(Users, id)) \in PutRecords
        /\ SSTable_get(sstables[1], sstFiles, Key(Users, id)) #
               SSTable_get(sstables[2], sstFiles, Key(Users, id))

\* ------------------------------------------------ commit, rollback: claims
\* json.loads of a TLOG payload, entry by entry from position i on.
RECURSIVE QuoteEnd(_, _)
QuoteEnd(b, i) == IF b[i] = 34 THEN i ELSE QuoteEnd(b, i + 1)

RECURSIVE LoadEntries(_, _)
LoadEntries(b, i) ==
    IF b[i] = 93 THEN <<>>
    ELSE LET opAt == i + 15
             opBytes == SubSeq(b, opAt, opAt + 5)
             operation == CHOOSE o \in {"INSERT", "UPDATE", "DELETE"} :
                              OperationBytes(o) = opBytes
             tAt == opAt + 6 + 13
             quoted == b[tAt] = 34
             tEnd == IF quoted THEN QuoteEnd(b, tAt + 1) + 1 ELSE DigitsEnd(b, tAt)
             target == IF quoted THEN SubSeq(b, tAt + 1, tEnd - 2)
                       ELSE Some(ParseInt(b, tAt, tEnd))
             dAt == tEnd + 10
             isId == b[dAt + 2] = 105
             ageAt == dAt + 21
             ageEnd == IF b[ageAt] = 34 THEN ageAt + 3 ELSE DigitsEnd(b, ageAt)
             idAt == IF isId THEN dAt + 7 ELSE ageEnd + 8
             idEnd == DigitsEnd(b, idAt)
             data == IF isId THEN [id |-> ParseInt(b, idAt, idEnd)]
                     ELSE [name |-> b[dAt + 10],
                           age |-> IF b[ageAt] = 34 THEN BadAge
                                   ELSE ParseInt(b, ageAt, ageEnd),
                           id |-> ParseInt(b, idAt, idEnd)]
             next == idEnd + 2
         IN  <<[operation |-> operation, target |-> target, data |-> data]>>
                 \o LoadEntries(b, IF b[next] = 44 THEN next + 2 ELSE next)

\* The pending list as a reader of the file sees it.
Pending(log) ==
    [i \in 1..Len(log) |->
        [operation |-> log[i].operation, target |-> log[i].target, data |-> log[i].data]]

\* What reads at the offsets ever handed out and at offset end, and a scan,
\* give on the engine f.
Answers(f, end) ==
    [reads |-> [o \in DOMAIN f.ins \cup {end} |->
                   LET r == FE_read_record(f, Users, o)
                   IN  IF r.ok THEN Found(r.rec) ELSE KeyError],
     scan |-> FE_scan_table(f, Users).recs]

\* C34: commit and rollback govern the pending list only.  A commit with
\* pending entries appends exactly one TLOG block whose payload decodes to
\* those entries in order and clears the list, a commit with none appends
\* nothing, a rollback clears the list and appends nothing; the offset
\* list, the cache, the index and the answers of every read and scan are
\* as before.
C34_CommitRollbackFrame ==
    [][lastRet'.op \in {"commit", "rollback"} =>
        LET before == FeState
            after == [bytes |-> fmBytes', cap |-> cacheSize', cache |-> cache',
                      index |-> idIndex', offsets |-> feOffsets', tlog |-> tlog',
                      ins |-> inserted']
            end == FileStart + Len(fmBytes)
            block == SubSeq(fmBytes', Len(fmBytes) + 1, Len(fmBytes'))
        IN  /\ after.tlog = <<>>
            /\ after.offsets = before.offsets
            /\ after.cache = before.cache
            /\ after.index = before.index
            /\ after.ins = before.ins
            /\ SubSeq(fmBytes', 1, Len(fmBytes)) = fmBytes
            /\ Answers(after, end) = Answers(before, end)
            /\ IF lastRet'.op = "commit" /\ before.tlog # <<>>
               THEN /\ FE_parse_block(block).ok
                    /\ FE_parse_block(block).type = TLOG
                    /\ Len(block) = BLOCK_HEADER_SIZE + Len(FE_parse_block(block).data)
                    /\ LoadEntries(FE_parse_block(block).data, 2) = Pending(before.tlog)
               ELSE fmBytes' = fmBytes]_vars

\* C34 witness: a commit has just written a pending list of three or more
\* entries, INSERTs and a DELETE, while the table still holds a record.
C34_CommittedInsertsAndDelete ==
    /\ engine = "file"
    /\ lastRet.op = "commit"
    /\ lastRet.pending >= 3
    /\ tlog = <<>>
    /\ feOffsets # <<>>
    /\ \E n \in 1..(Len(fmBytes) - 3) :
        LET p == FE_parse_block(SubSeq(fmBytes, n, Len(fmBytes)))
        IN  /\ SubSeq(fmBytes, n, n + 3) = TLOG
            /\ p.ok
            /\ p.type = TLOG
            /\ Len(fmBytes) - n + 1 = BLOCK_HEADER_SIZE + Len(p.data)
            /\ {e.operation : e \in SeqToSet(LoadEntries(p.data, 2))} =
                   {"INSERT", "DELETE"}

\* ----------------------------------------------------- persistence: claims
\* C35: close() leaves every appended block as it is, and the engine that
\* open() brings up has the offset list the closed engine had and scans to
\* the same records.
C35_PersistenceRoundTrip ==
    [][/\ (perPc = "open" /\ perPc' = "closed") =>
              /\ Len(fmBytes') >= Len(fmBytes)
              /\ SubSeq(fmBytes', 1, Len(fmBytes)) = fmBytes
       /\ (perPc = "closed" /\ perPc' = "open") =>
              LET after == [bytes |-> fmBytes', cap |-> cacheSize', cache |-> cache',
                            index |-> idIndex', offsets |-> feOffsets',
                            tlog |-> tlog', ins |-> inserted']
              IN  /\ after.offsets = perSaved.offsets
                  /\ FE_scan_table(after, Users).recs = perSaved.scan]_vars

\* ------------------------------------------------ index calls: claims
\* search(key) finds the offset given with the key
FoundAt(index, key) ==
    BT_search_node_typed(index.root, key) = [raised |-> FALSE, ret |-> Some(BTOffset(key))]

\* C36: an index insert that raises TypeError leaves the tree as it was
\* (keys, structure, size), every key found before is still found, and a
\* comparable key that could be inserted before can be inserted after and
\* is then found.
C36_DroppedInsertHasNoEffect ==
    [][(bxCalls' = bxCalls + 1 /\ bxRet'.op = "insert" /\ bxRet'.raised) =>
          /\ btIndex' = btIndex
          /\ \A k \in BxKeys : FoundAt(btIndex, k) => FoundAt(btIndex', k)
          /\ \A k \in BxKeys \ btKeys :
                 ~BT_insert_typed(btIndex, k, BTOffset(k)).raised =>
                     LET a == BT_insert_typed(btIndex', k, BTOffset(k))
                     IN  ~a.raised /\ FoundAt(a.st, k)]_vars

\* every key of the tree is an int and every inner node has one child more
\* than keys: a tree as inserts of distinct ints build it
RECURSIVE BT_wellformed(_)
BT_wellformed(node) ==
    /\ \A i \in 1..Len(node.keys) : node.keys[i] >= 0
    /\ node.is_leaf \/ Len(node.children) = Len(node.keys) + 1
    /\ \A i \in 1..Len(node.children) : BT_wellformed(node.children[i])

\* an inner node without keys, where range_search reads node.keys[i - 1]
\* of an empty list
RECURSIVE HasKeylessInner(_)
HasKeylessInner(node) ==
    \/ ~node.is_leaf /\ node.keys = <<>>
    \/ \E i \in 1..Len(node.children) : HasKeylessInner(node.children[i])

\* C39: delete(k) on a tree of distinct int keys returns True iff k was
\* found, leaves k not found, takes one off size() when it returns True, and
\* every other key found before is still found with its offset and is in
\* range_search over all keys.
C39_DeleteTouchesOneKey ==
    [][(/\ bxCalls' = bxCalls + 1
        /\ bxRet'.op = "delete"
        /\ BT_wellformed(btIndex.root)) =>
          /\ ~bxRet'.raised
          /\ bxRet'.ret = FoundAt(btIndex, bxRet'.key)
          /\ BT_search(btIndex', bxRet'.key) = None
          /\ BT_size(btIndex') = BT_size(btIndex) - (IF bxRet'.ret THEN 1 ELSE 0)
          /\ \A k \in BxKeys \ {bxRet'.key} :
                 FoundAt(btIndex, k) =>
                     /\ FoundAt(btIndex', k)
                     /\ ~HasKeylessInner(btIndex'.root)
                     /\ InList(BT_range_search(btIndex', 0, 99), <<k, BTOffset(k)>>)]_vars

\* ---------------------------------------------------- CacheManager: claims
\* C37: the cache never holds more than capacity entries; a put of a key
\* not cached into a cache holding capacity entries takes out exactly one
\* entry, the one least recently touched by a get hit or a put; hits +
\* misses is the number of get calls since the last clear.
C37_LruBoundAndEviction ==
    [][/\ Len(cache') <= cacheSize
       /\ lruHits' + lruMisses' = lruGets'
       /\ (/\ lruRet'.op = "put"
           /\ cache' # cache
           /\ ~CacheHas(cache, lruRet'.key)
           /\ Len(cache) = cacheSize) =>
              /\ lruRet'.evicted = {Head(Append(lruTouch, lruRet'.key))}
              /\ CacheKeys(cache') =
                     (CacheKeys(cache) \cup {lruRet'.key}) \ lruRet'.evicted]_vars

\* a put into a full cache of two or more entries has taken out an entry,
\* after gets that hit and gets that missed
C37_EvictionAfterTouch ==
    /\ lruRet # None
    /\ lruRet.op = "put"
    /\ lruRet.evicted # {}
    /\ lruRet.key \notin lruRet.evicted
    /\ cacheSize >= 2
    /\ Len(cache) = cacheSize
    /\ lruHits >= 1
    /\ lruMisses >= 1


\* ------------------------------------------------- QueryProcessor: claims
\* _populate_index of a new index on field, from position i of the offset
\* list on: st is the engine afterwards (the reads fill the cache)
RECURSIVE FE_populate_field(_, _, _, _, _)
FE_populate_field(f, c, field, index, i) ==
    IF i > Len(f.offsets) THEN [st |-> f, index |-> index]
    ELSE LET r == FE_read_record(f, c, f.offsets[i])
         IN  FE_populate_field(
                 r.st, c, field,
                 IF r.ok /\ field \in DOMAIN r.rec
                 THEN BT_insert(index, r.rec[field], f.offsets[i])
                 ELSE index,
                 i + 1)

\* create_index(c, field): BTreeIndex(order), then _populate_index
FE_create_index(f, c, field) ==
    FE_populate_field(f, c, field, BTreeIndex(BTREE_ORDER), 1)

\* execute on the append engine holding the index on field: through the
\* index when the query names the field, else a full scan; then the filter
QP_execute_field(f, c, query, field, index) ==
    LET cand ==
            IF field \in DOMAIN query
            THEN LET offset == BT_search(index, query[field])
                 IN  IF offset = None THEN <<>>
                     ELSE LET r == FE_read_record(f, c, offset.some)
                          IN  IF r.ok THEN <<r.rec>> ELSE <<>>
            ELSE FE_scan_table(f, c).recs
    IN  QP_filter(cand, query)

\* the records of a list, as a set
RecordSet(recs) == {recs[i] : i \in 1..Len(recs)}

\* C38: between calls of the table on the append engine, execute answers
\* every query with the records that a full scan followed by the filter
\* gives: through the index on 'id' that the table keeps, and through an
\* index on 'name' or 'age' that create_index builds at that point.
C38_IndexScanEqualsFullScan ==
    (pc = "idle" /\ engine = "file") =>
        \A where \in Wheres :
            LET full == RecordSet(QP_filter(Eng_scan_table(DbState, Users).recs, where))
            IN  /\ \A field \in {"name", "age"} :
                       LET made == FE_create_index(FeState, Users, field)
                       IN  RecordSet(QP_execute_field(made.st, Users, where, field,
                                                      made.index)) = full
                /\ RecordSet(QP_execute(DbState, Users, where).recs) = full

\* ------------------------------------------------------------ ring: claims
\* C40: sorted_keys is strictly ascending and holds exactly the keys of the
\* ring map, and on a ring that maps some node get_node gives every key a
\* node the ring maps.
C40_RingConsistent ==
    /\ \A i \in 1..(Len(ringSorted) - 1) : ringSorted[i] < ringSorted[i + 1]
    /\ {ringSorted[i] : i \in 1..Len(ringSorted)} = DOMAIN ringMap
    /\ DOMAIN ringMap # {} =>
           \A key \in Labels :
               LET placed == RING_get_node(RingState, key)
               IN  /\ "node" \in DOMAIN placed
                   /\ \E h \in DOMAIN ringMap : ringMap[h] = placed.node
====
